---- MODULE Spec2Model ----
(***************************************************************************)
(* AdFlow: one ad-generation job driven by run_generation_task.            *)
(*                                                                         *)
(* The job store (api.py JobStore), the background task                    *)
(* (api.py run_generation_task with its on_tool_call / on_tool_result      *)
(* callbacks), the agent wrapper (agent.py AdGeneratorAgent: the two tools *)
(* get_product_metadata and generate_video, the provider pipelines         *)
(* _generate_freepik / _generate_kie, and the final checks of generate_ad) *)
(* and the polling loop of the provider clients (wait_for_completion).     *)
(*                                                                         *)
(* The LLM conversation is opaque: between tool calls the agent may call   *)
(* either tool, in any order and repeatedly, or end the conversation.      *)
(* Every provider response is an input chosen with \E.                     *)
(*                                                                         *)
(* Spec is the job driven by run_generation_task. WaitSpec is one call of   *)
(* wait_for_completion on its own, for every timeout and interval of its   *)
(* bounds; StoreSpec is a JobStore on its own under create, update and     *)
(* add_log with any ids; ConcSpec is a JobStore shared by writer threads   *)
(* and a reader. MergeSpec applies _merge_metadata to bounded inputs,      *)
(* ExtractSpec is one call of get_product_metadata down to the strategies  *)
(* of metadata_extractor.py, and ClientSpec is the life of one API client  *)
(* object: constructor, async context, network operations. HttpSpec is the *)
(* HTTP surface of one deployment (api.py, api/index.py, api/generate.py), *)
(* and ReplySpec is one provider client call on any response: check_status *)
(* of FreePik and Kie.ai, generate_video of Kie.ai, the TinyFish stream.   *)
(*                                                                         *)
(* Records carry the fields the code reads and writes (JobStatus; the      *)
(* provider result with provider / local_path as agent.py builds it).      *)
(* Timestamps (created_at, updated_at, LogEntry.timestamp) are left out:   *)
(* no operation modelled here reads them.                                  *)
(***************************************************************************)
EXTENDS Integers, Sequences, FiniteSets, TLC

\* ------------------------------------------------------------------ bounds

\* Tool invocations the agent makes in one conversation (max_turns = 10 in
\* agent.py caps the real number).
MaxToolCalls == 3

\* Status checks of one wait_for_completion before it times out
\* (timeout_seconds / poll_interval: 300 / 5 for FreePik, 600 / 10 for Kie.ai).
MaxPolls == 1

\* wait_for_completion: the largest timeout_seconds and poll_interval tried.
MaxTimeout == 3
MaxInterval == 2

\* Length of the image and feature lists given to _merge_metadata.
MaxLen == 2

\* JSON-LD scripts in a fetched page.
MaxItems == 2

\* add_log calls made on one job: enough to pass the cap of its log.
MaxLogs == 52

\* HTTP requests served by one deployment.
MaxRequests == 3

\* Network operations called on one client object.
MaxOps == 2

\* Lines of one TinyFish event stream.
MaxEvents == 3

\* JobStore operations the writer threads call between them.
MaxWrites == 3

\* JobStore.add_log keeps the last 50 entries.
LogCap == 50

\* --------------------------------------------------------------- constants

JobId == "ab12cd34"

Urls == {"https://shop.example/p/widget"}

Prompts == {"cinematic widget ad"}

\* JobStage
QUEUED == "queued"
EXTRACTING_METADATA == "extracting_metadata"
GENERATING_PROMPT == "generating_prompt"
GENERATING_VIDEO == "generating_video"
COMPLETED == "completed"
FAILED == "failed"

\* AgentStatus
STANDBY == "standby"
ACTIVE == "active"
DONE == "done"
AGENT_FAILED == "failed"

\* VideoStatus
VIDEO_PENDING == "pending"
VIDEO_PROCESSING == "processing"
VIDEO_COMPLETED == "completed"
VIDEO_FAILED == "failed"

\* Optional[...] fields that are None
Null == "null"

\* An argument dictionary that lacks the tool's argument.
NoArgs == [k \in {} |-> Null]

\* args.get(key)
ArgGet(args, key) == IF key \in DOMAIN args THEN args[key] ELSE Null

\* Providers, in the order generate_video runs them
FREEPIK == "freepik"
KIE_AI == "kie_ai"

VARIABLES
    jobs,               \* JobStore._jobs: job id -> JobStatus
    pc,                 \* position of run_generation_task
    exc,                \* text of the exception that entered the except block
    use_veo3,           \* AdGeneratorAgent.use_veo3
    tracks_result,      \* whether the agent was given on_tool_result and delivers it
    product_metadata,   \* AdGeneratorAgent._product_metadata
    video_results,      \* AdGeneratorAgent._video_results
    video_prompt,       \* AdGeneratorAgent._video_prompt
    resolver_session,   \* the HTTP sessions of extract_product_metadata
    calls,              \* tool invocations made so far in the conversation
    results,            \* generate_video: local list results
    errors,             \* generate_video: local list errors
    pipe,               \* provider -> position of its submit-wait-download pipeline
    payload,            \* what the last tool invocation returned to the agent
    trace,              \* observation: the job's (stage, product) after each update
    wait,               \* one wait_for_completion call: its arguments and locals
    store,              \* observation: the latest JobStore operation
    conc,               \* threads sharing one JobStore: lock, locals, observations
    meta,               \* one metadata extraction: its inputs and what it returned
    client,             \* one API client object: its key, its session, its calls
    http,               \* the HTTP endpoints: deployment, files, latest exchange
    reply               \* a provider client call: operation, response, outcome

vars == <<jobs, pc, exc, use_veo3, tracks_result, product_metadata, video_results,
          video_prompt, resolver_session, calls, results, errors, pipe, payload, trace, wait, store,
          conc, meta, client, http, reply>>

\* ---------------------------------------------------------------- JobStore

AgentStatuses(research, content, video) ==
    [research |-> research, content |-> content, video |-> video]

\* NewJob that is born already started.
NewJobStarted(product_url) ==
    [product_url |-> product_url,
     stage |-> EXTRACTING_METADATA,
     progress_percent |-> 5,
     message |-> "Job queued",
     product |-> Null,
     video_prompt |-> Null,
     video_path |-> Null,
     error |-> Null,
     agents |-> AgentStatuses(ACTIVE, STANDBY, STANDBY),
     logs |-> <<>>]

\* JobStore.create: the record of a new job
NewJob(product_url) ==
    [product_url |-> product_url,
     stage |-> QUEUED,
     progress_percent |-> 0,
     message |-> "Job queued",
     product |-> Null,
     video_prompt |-> Null,
     video_path |-> Null,
     error |-> Null,
     agents |-> AgentStatuses(STANDBY, STANDBY, STANDBY),
     logs |-> <<>>]

\* update that inserts a record for an id the store does not hold.
update_upsert(js, job_id, kwargs) ==
    [id \in DOMAIN js \cup {job_id} |->
        IF id \in DOMAIN js /\ id # job_id THEN js[id] ELSE kwargs]

\* JobStore.update: merge kwargs into the record; unknown id is a no-op,
\* a key the record does not have is skipped (hasattr).
update(js, job_id, kwargs) ==
    IF job_id \in DOMAIN js
    THEN [js EXCEPT ![job_id] =
            [k \in DOMAIN js[job_id] |->
                IF k \in DOMAIN kwargs THEN kwargs[k] ELSE js[job_id][k]]]
    ELSE js

\* logs[:50]: the cap that keeps the oldest entries.
FirstLogs(logs) == IF Len(logs) > LogCap THEN SubSeq(logs, 1, LogCap) ELSE logs

\* logs[-50:]
LastLogs(logs) ==
    IF Len(logs) > LogCap
    THEN SubSeq(logs, Len(logs) - LogCap + 1, Len(logs))
    ELSE logs

\* JobStore.add_log
add_log(js, job_id, source, message) ==
    IF job_id \in DOMAIN js
    THEN [js EXCEPT ![job_id].logs =
            LastLogs(Append(@, [source |-> source, message |-> message]))]
    ELSE js

\* JobStore.get
get(js, job_id) == IF job_id \in DOMAIN js THEN js[job_id] ELSE Null

Job == jobs[JobId]

\* The observation appended after each update of the job.
Observe(js) == [stage |-> js[JobId].stage, product |-> js[JobId].product]

\* ------------------------------------------------- run_generation_task

\* on_tool_call(name, args)
on_tool_call(js, name, args) ==
    IF name = "get_product_metadata"
    THEN add_log(
            update(js, JobId,
                [stage |-> EXTRACTING_METADATA,
                 progress_percent |-> 10,
                 message |-> "Extracting product metadata...",
                 agents |-> AgentStatuses(ACTIVE, STANDBY, STANDBY)]),
            JobId, "Agent", "Calling get_product_metadata tool")
    ELSE IF name = "generate_video"
    THEN add_log(
            update(js, JobId,
                [stage |-> GENERATING_VIDEO,
                 progress_percent |-> 50,
                 message |-> "Generating video...",
                 video_prompt |-> ArgGet(args, "prompt"),
                 agents |-> AgentStatuses(DONE, DONE, ACTIVE)]),
            JobId, "Agent", "Starting video generation")
    ELSE js

\* on_tool_result(name, args, result)
on_tool_result(js, name, args, result) ==
    IF name = "get_product_metadata"
    THEN add_log(
            update(js, JobId,
                [stage |-> GENERATING_PROMPT,
                 progress_percent |-> 35,
                 message |-> "Creating video prompt...",
                 product |-> result,
                 agents |-> AgentStatuses(DONE, ACTIVE, STANDBY)]),
            JobId, "Agent", "Extracted metadata for: product")
    ELSE js

\* FailedFields without the stage: a handler that records the error only.
FailedFieldsNoStage(e) ==
    [progress_percent |-> 0,
     message |-> "Generation failed",
     error |-> e,
     agents |-> AgentStatuses(AGENT_FAILED, AGENT_FAILED, AGENT_FAILED)]

\* FailedFields without the progress reset.
FailedFieldsKeepProgress(e) ==
    [stage |-> FAILED,
     message |-> "Generation failed",
     error |-> e,
     agents |-> AgentStatuses(AGENT_FAILED, AGENT_FAILED, AGENT_FAILED)]

\* The kwargs of the update in the except block.
FailedFields(e) ==
    [stage |-> FAILED,
     progress_percent |-> 0,
     message |-> "Generation failed",
     error |-> e,
     agents |-> AgentStatuses(AGENT_FAILED, AGENT_FAILED, AGENT_FAILED)]

\* The kwargs of the final update of the try block.
CompletedFields(product, prompt, video_path) ==
    [stage |-> COMPLETED,
     progress_percent |-> 100,
     message |-> "Video generation complete!",
     product |-> product,
     video_prompt |-> prompt,
     video_path |-> video_path,
     agents |-> AgentStatuses(DONE, DONE, DONE)]

NoPayload == [tool |-> Null, isError |-> FALSE, kind |-> Null,
              providers |-> <<>>, errors |-> <<>>]

\* VideoGenerationResult as the clients build it.
VideoGenerationResult(status, video_url, error_message) ==
    [status |-> status, video_url |-> video_url, error_message |-> error_message]

\* No status check made yet.
NoResult == VideoGenerationResult(Null, Null, Null)

\* A provider pipeline that has not been entered; last is the result of its
\* latest check_status.
IdlePipe == [at |-> "idle", elapsed |-> 0, video_url |-> Null, local_path |-> Null,
             error |-> Null, last |-> NoResult, session |-> "None"]

\* __aexit__ that closes nothing.
aexit_keeps_open(session) == session

\* __aexit__ at the end of an `async with` block, however the block is left:
\* if self._client: await self._client.aclose()
aexit(session) == IF session = "open" THEN "closed" ELSE session

Providers == {FREEPIK, KIE_AI}

\* No wait_for_completion call under observation.
IdleWait == [at |-> "idle", timeout_seconds |-> 0, poll_interval |-> 0, elapsed |-> 0,
             slept |-> 0, seen |-> <<>>, result |-> NoResult]

\* The ids str(uuid.uuid4())[:8] may return.
JobIds == {JobId, "ef56ab78"}

\* No JobStore operation observed yet; added counts the add_log calls made on
\* each record since its create, list_of names the list object that the logs
\* field of each record holds.
IdleStore == [op |-> Null, id |-> Null, known |-> FALSE, url |-> Null,
              added |-> [id \in JobIds |-> 0],
              list_of |-> [id \in JobIds |-> <<>>]]

\* The threads that call the writing operations of one JobStore.
Writers == {"w1", "w2"}

\* A thread outside every JobStore operation.
IdleThread == [pc |-> "idle", op |-> Null, id |-> Null, i |-> 0, tmp |-> <<>>,
               msg |-> 0]

\* No thread in the store; serial is the store the calls give when applied one
\* after the other in the order they took the lock; seen is what the latest
\* read returned.
IdleConc == [lock |-> Null, th |-> [t \in Writers |-> IdleThread],
             serial |-> [id \in {} |-> Null], seen |-> {}, issued |-> 0,
             begun |-> 0]

\* No metadata extraction under observation.
IdleMeta == [phase |-> "idle"]

\* No API client under observation.
IdleClient == [at |-> "idle"]

\* No HTTP endpoint under observation.
IdleHttp == [profile |-> "idle"]

\* No provider call under observation.
IdleReply == [op |-> "idle"]

\* POST /api/generate has created the job and scheduled the background task.
Init ==
    /\ \E u \in Urls : jobs = (JobId :> NewJob(u))
    /\ pc = "queued"
    /\ exc = Null
    /\ use_veo3 \in BOOLEAN
    /\ tracks_result \in BOOLEAN
    /\ product_metadata = Null
    /\ video_results = <<>>
    /\ video_prompt = Null
    /\ resolver_session = "None"
    /\ calls = 0
    /\ results = <<>>
    /\ errors = <<>>
    /\ pipe = [p \in Providers |-> IdlePipe]
    /\ payload = NoPayload
    /\ trace = <<>>
    /\ wait = IdleWait
    /\ store = IdleStore
    /\ conc = IdleConc
    /\ meta = IdleMeta
    /\ client = IdleClient
    /\ http = IdleHttp
    /\ reply = IdleReply

\* What no step of run_generation_task changes.
fixed == <<use_veo3, tracks_result, wait, store, conc, meta, client, http, reply>>

agent_vars == <<fixed, product_metadata, video_results, video_prompt,
                resolver_session, calls>>
tool_vars == <<results, errors, pipe, payload>>

\* run_generation_task, first update of the try block
TaskStart ==
    /\ pc = "queued"
    /\ jobs' = add_log(
            update(jobs, JobId,
                [stage |-> EXTRACTING_METADATA,
                 progress_percent |-> 5,
                 message |-> "Starting generation...",
                 agents |-> AgentStatuses(ACTIVE, STANDBY, STANDBY)]),
            JobId, "System", "Starting ad generation pipeline")
    /\ trace' = Append(trace, Observe(jobs'))
    /\ pc' = "setup"
    /\ UNCHANGED <<exc, agent_vars, tool_vars>>

\* job_output_dir.mkdir raises
MkdirRaises ==
    /\ pc = "setup"
    /\ exc' = "OSError: cannot create output directory"
    /\ pc' = "except"
    /\ UNCHANGED <<jobs, trace, agent_vars, tool_vars>>

\* AdGeneratorAgent(output_dir=..., on_tool_call=..., on_tool_result=..., on_log=...)
\* raises: the __init__ of agent.py takes no on_tool_result and no on_log.
ConstructRaises ==
    /\ pc = "setup"
    /\ exc' = "TypeError: unexpected keyword argument 'on_tool_result'"
    /\ pc' = "except"
    /\ UNCHANGED <<jobs, trace, agent_vars, tool_vars>>

\* The agent is constructed and generate_ad opens the conversation.
ConstructAgent ==
    /\ pc = "setup"
    /\ pc' = "agent"
    /\ UNCHANGED <<jobs, trace, exc, agent_vars, tool_vars>>

\* except Exception as e: the update of the handler
HandleException ==
    /\ pc = "except"
    /\ jobs' = update(jobs, JobId, FailedFields(exc))
    /\ trace' = Append(trace, Observe(jobs'))
    /\ pc' = "failed_log"
    /\ UNCHANGED <<exc, agent_vars, tool_vars>>

\* except Exception as e: the add_log that ends the handler and the task
LogFailure ==
    /\ pc = "failed_log"
    /\ jobs' = add_log(jobs, JobId, "System", "Error")
    /\ pc' = "done"
    /\ UNCHANGED <<trace, exc, agent_vars, tool_vars>>

\* ------------------------------------------------------ AdGeneratorAgent

\* The notification after a tool has finished, "where tracked": the agent
\* run_generation_task constructs is given on_tool_result; the agent of agent.py
\* holds on_tool_call only and delivers nothing here (tracks_result = FALSE).
log_tool_result(js, name, args, result) ==
    IF tracks_result THEN on_tool_result(js, name, args, result) ELSE js

\* _log_tool_call that drops the notification.
log_tool_call_dropped(js, name, args) == js

\* _log_tool_call
log_tool_call(js, name, args) == on_tool_call(js, name, args)

\* f"FreePik: {e}" / f"Kie.ai: {e}"
ErrorEntry(p, e) == [provider |-> p, message |-> e]

\* What a tool returns to the agent.
Payload(tool, isError, kind, providers, errs) ==
    [tool |-> tool, isError |-> isError, kind |-> kind,
     providers |-> providers, errors |-> errs]

\* Outcomes of `await extract_product_metadata(url)` inside get_product_metadata:
\* it returns metadata, or raises and the except branch derives them from the URL.
MetadataOutcomes == {"extracted", "fallback"}

\* An exception left the tool: nothing was returned to the agent.
ToolRaised(tool, e) == Payload(tool, TRUE, "raised", <<>>, <<ErrorEntry(Null, e)>>)

\* The argument dictionaries the agent may pass to get_product_metadata.
MetadataArgs == {[url |-> u] : u \in Urls} \cup {NoArgs}

\* The argument dictionaries the agent may pass to generate_video.
VideoArgs == {[prompt |-> prompt] : prompt \in Prompts} \cup {NoArgs}

\* get_product_metadata, up to the await. Without "url", args["url"] raises
\* KeyError inside the try and the except branch, reading url, raises
\* UnboundLocalError out of the tool.
GetMetadataCall ==
    /\ pc = "agent"
    /\ calls < MaxToolCalls
    /\ \E args \in MetadataArgs :
        /\ jobs' = log_tool_call(jobs, "get_product_metadata", args)
        /\ IF "url" \in DOMAIN args
           THEN /\ pc' = "metadata"
                /\ resolver_session' = "open"
                /\ UNCHANGED payload
           ELSE /\ pc' = "agent"
                /\ payload' = ToolRaised("get_product_metadata", "UnboundLocalError")
                /\ UNCHANGED resolver_session
    /\ trace' = Append(trace, Observe(jobs'))
    /\ calls' = calls + 1
    /\ UNCHANGED <<exc, fixed, product_metadata, video_results,
                   video_prompt, results, errors, pipe>>

\* get_product_metadata, from the await to the return
GetMetadataReturn ==
    /\ pc = "metadata"
    /\ \E o \in MetadataOutcomes, u \in Urls :
        /\ product_metadata' = o
        /\ payload' = Payload("get_product_metadata", o = "fallback", o, <<>>, <<>>)
        /\ jobs' = log_tool_result(jobs, "get_product_metadata", [url |-> u], o)
    /\ resolver_session' = aexit(resolver_session)
    /\ trace' = Append(trace, Observe(jobs'))
    /\ pc' = "agent"
    /\ UNCHANGED <<exc, fixed, video_results, video_prompt,
                   calls, results, errors, pipe>>

\* generate_video, up to the first provider: notification, prompt, empty lists.
\* Without "prompt", args["prompt"] raises KeyError, which the outer except
\* turns into the "Unexpected error" payload.
GenerateVideoCall ==
    /\ pc = "agent"
    /\ calls < MaxToolCalls
    /\ \E args \in VideoArgs :
        /\ jobs' = log_tool_call(jobs, "generate_video", args)
        /\ IF "prompt" \in DOMAIN args
           THEN /\ video_prompt' = args.prompt
                /\ pc' = "video"
                /\ UNCHANGED payload
           ELSE /\ payload' = Payload("generate_video", TRUE, "unexpected", <<>>,
                                      <<ErrorEntry(Null, "KeyError")>>)
                /\ pc' = "agent"
                /\ UNCHANGED video_prompt
    /\ trace' = Append(trace, Observe(jobs'))
    /\ calls' = calls + 1
    /\ results' = <<>>
    /\ errors' = <<>>
    /\ pipe' = [p \in Providers |-> IdlePipe]
    /\ UNCHANGED <<exc, fixed, product_metadata, video_results,
                   resolver_session>>

\* --------------------------------------------------- provider pipelines

\* A pipeline that returned, or raised its provider's error class, which
\* generate_video catches (except FreePikError / except KieAIError).
Caught == {"done", "failed"}

\* A pipeline that is over: Caught, or ended by any other exception.
Settled == Caught \cup {"raised"}

\* A pipeline between its submit and its end.
Running == {"submit", "wait", "download"}

\* generate_video reaches provider p's try block: FreePik first; Kie.ai if
\* use_veo3, after FreePik's block is over.
MayStart(p) ==
    IF p = FREEPIK
    THEN pipe[FREEPIK].at = "idle"
    ELSE use_veo3 /\ pipe[FREEPIK].at \in Caught /\ pipe[KIE_AI].at = "idle"

\* wait_for_completion: seconds between two polls, in units of one interval
\* (5.0 s FreePik, 10.0 s Kie.ai)
poll_interval(p) == 1

\* wait_for_completion: timeout_seconds (300 s FreePik, 600 s Kie.ai), in the
\* same unit
timeout_seconds(p) == MaxPolls

\* f"freepik_{task_id}.mp4" / f"veo3_{task_id}.mp4"
LocalPath(p) == IF p = FREEPIK THEN "freepik_task.mp4" ELSE "veo3_task.mp4"

\* The VideoGenerationResult a pipeline returns.
PipelineResult(p, video_url, local_path) ==
    [provider |-> p,
     status |-> IF p = KIE_AI /\ video_url = Null
                THEN VIDEO_FAILED ELSE VIDEO_COMPLETED,
     video_url |-> video_url,
     error_message |-> Null,
     local_path |-> local_path]

\* The pipeline raises its provider's error: generate_video appends it to errors.
ProviderFails(pm, p, e) ==
    /\ pipe' = [pm EXCEPT ![p].at = "failed", ![p].error = e,
                          ![p].session = aexit(@)]
    /\ errors' = Append(errors, ErrorEntry(p, e))
    /\ UNCHANGED results

\* PipelineRaises that swallows the exception and goes on where it was.
PipelineRetries(p, e) ==
    /\ pipe' = [pipe EXCEPT ![p].error = e]
    /\ UNCHANGED <<results, errors>>

\* The pipeline raises anything else: it leaves both inner try blocks.
PipelineRaises(p, e) ==
    /\ pipe' = [pipe EXCEPT ![p].at = "raised", ![p].error = e,
                            ![p].session = aexit(@)]
    /\ UNCHANGED <<results, errors>>

\* The pipeline returns: generate_video appends the result to results.
PipelineReturns(pm, p, video_url, local_path) ==
    /\ pipe' = [pm EXCEPT ![p].at = "done", ![p].video_url = video_url,
                          ![p].local_path = local_path,
                          ![p].session = aexit(@)]
    /\ results' = Append(results, PipelineResult(p, video_url, local_path))
    /\ UNCHANGED errors

pipeline_frame == <<jobs, trace, pc, exc, agent_vars, payload>>

\* _generate_freepik / _generate_kie: client construction and the submit request
StartPipeline(p) ==
    /\ pc = "video"
    /\ MayStart(p)
    /\ \/ ProviderFails(pipe, p, "API key not provided")
       \/ /\ pipe' = [pipe EXCEPT ![p].at = "submit", ![p].session = "open"]
          /\ UNCHANGED <<results, errors>>
    /\ UNCHANGED pipeline_frame

\* client.generate_video returns or raises
SubmitReturns(p) ==
    /\ pc = "video"
    /\ pipe[p].at = "submit"
    /\ \/ /\ pipe' = [pipe EXCEPT ![p].at = "wait", ![p].elapsed = 0]
          /\ UNCHANGED <<results, errors>>
       \/ ProviderFails(pipe, p, "Insufficient credits")
       \/ PipelineRaises(p, "ConnectError")
    /\ UNCHANGED pipeline_frame

\* Responses to one check_status inside wait_for_completion: the provider's
\* task status with or without a video URL, or a check that raises: the
\* provider's error (HTTP error status, credit error in the body) or the
\* transport's (ConnectError, ReadTimeout), which check_status does not catch.
PollOutcomes ==
    {"processing", "completed_url", "completed_no_url", "failed",
     "status_error", "transport_error"}

\* The responses for which check_status raises.
CheckRaises == {"status_error", "transport_error"}

\* check_status: the VideoGenerationResult built from a response
check_status(o) ==
    CASE o = "pending" -> VideoGenerationResult(VIDEO_PENDING, Null, Null)
      [] o = "processing" -> VideoGenerationResult(VIDEO_PROCESSING, Null, Null)
      [] o = "completed_url" -> VideoGenerationResult(VIDEO_COMPLETED, "url", Null)
      [] o = "completed_no_url" -> VideoGenerationResult(VIDEO_COMPLETED, Null, Null)
      [] o = "failed" -> VideoGenerationResult(VIDEO_FAILED, Null, "Unknown error")

\* WaitExpired that lets the loop run once more when elapsed equals the timeout.
WaitExpiredLate(elapsed, timeout) == ~(elapsed <= timeout)

\* WaitExpired that stops one unit before the timeout.
WaitExpiredEarly(elapsed, timeout) == ~(elapsed + 1 < timeout)

\* wait_for_completion: the loop test
WaitExpired(elapsed, timeout) == ~(elapsed < timeout)

\* wait_for_completion: one iteration of the loop
Poll(p) ==
    /\ pc = "video"
    /\ pipe[p].at = "wait"
    /\ ~WaitExpired(pipe[p].elapsed, timeout_seconds(p))
    /\ \E o \in PollOutcomes :
        IF o = "transport_error"
        THEN PipelineRaises(p, "ReadTimeout")
        ELSE IF o = "status_error"
        THEN ProviderFails(pipe, p, "API error")
        ELSE LET result == check_status(o)
                 seen == [pipe EXCEPT ![p].last = result]
             IN  CASE result.status = VIDEO_COMPLETED /\ result.video_url # Null ->
                        /\ pipe' = [seen EXCEPT ![p].at = "download",
                                                ![p].video_url = result.video_url]
                        /\ UNCHANGED <<results, errors>>
                   [] result.status = VIDEO_COMPLETED /\ result.video_url = Null ->
                        PipelineReturns(seen, p, Null, Null)
                   [] result.status = VIDEO_FAILED ->
                        ProviderFails(seen, p, "Video generation failed")
                   [] OTHER ->
                        /\ pipe' = [seen EXCEPT ![p].elapsed = @ + poll_interval(p)]
                        /\ UNCHANGED <<results, errors>>
    /\ UNCHANGED pipeline_frame

\* wait_for_completion: the loop ends without a terminal status
WaitTimeout(p) ==
    /\ pc = "video"
    /\ pipe[p].at = "wait"
    /\ WaitExpired(pipe[p].elapsed, timeout_seconds(p))
    /\ ProviderFails(pipe, p, "Timeout waiting for video generation")
    /\ UNCHANGED pipeline_frame

\* client.download_video returns or raises
Download(p) ==
    /\ pc = "video"
    /\ pipe[p].at = "download"
    /\ \/ PipelineReturns(pipe, p, pipe[p].video_url, LocalPath(p))
       \/ ProviderFails(pipe, p, "Download failed")
       \/ PipelineRaises(p, "OSError")
    /\ UNCHANGED pipeline_frame

\* Every provider block of generate_video is over.
AllCaught ==
    /\ pipe[FREEPIK].at \in Caught
    /\ use_veo3 => pipe[KIE_AI].at \in Caught

\* Aggregate that adds the results to those recorded before.
AggregateExtends ==
    /\ pc = "video"
    /\ AllCaught
    /\ video_results' = video_results \o results
    /\ payload' =
        IF results = <<>>
        THEN Payload("generate_video", TRUE, "all_failed", <<>>, errors)
        ELSE Payload("generate_video", FALSE, "completed",
                     [i \in 1..Len(results) |-> results[i].provider], errors)
    /\ pc' = "agent"
    /\ UNCHANGED <<jobs, trace, exc, fixed, product_metadata, resolver_session,
                   video_prompt, calls, results, errors, pipe>>

\* generate_video: self._video_results = results and the payload
Aggregate ==
    /\ pc = "video"
    /\ AllCaught
    /\ video_results' = results
    /\ payload' =
        IF results = <<>>
        THEN Payload("generate_video", TRUE, "all_failed", <<>>, errors)
        ELSE Payload("generate_video", FALSE, "completed",
                     [i \in 1..Len(results) |-> results[i].provider], errors)
    /\ pc' = "agent"
    /\ UNCHANGED <<jobs, trace, exc, fixed, product_metadata, resolver_session,
                   video_prompt, calls, results, errors, pipe>>

\* generate_video: except Exception as e
UnexpectedError ==
    /\ pc = "video"
    /\ \E p \in Providers :
        /\ pipe[p].at = "raised"
        /\ payload' = Payload("generate_video", TRUE, "unexpected", <<>>,
                              <<ErrorEntry(Null, pipe[p].error)>>)
    /\ pc' = "agent"
    /\ UNCHANGED <<jobs, trace, exc, agent_vars, results, errors, pipe>>

\* ------------------------------------------------------------ generate_ad

\* The conversation ends (ResultMessage; the turn budget is one way to get here).
AgentEnds ==
    /\ pc = "agent"
    /\ pc' = "compile"
    /\ UNCHANGED <<jobs, trace, exc, agent_vars, tool_vars>>

\* The agent runtime raises inside generate_ad (connect, query, receive_response).
AgentRaises ==
    /\ pc = "agent"
    /\ exc' = "agent runtime error"
    /\ pc' = "except"
    /\ UNCHANGED <<jobs, trace, agent_vars, tool_vars>>

\* CompileError without the check of the recorded results.
CompileErrorMetadataOnly ==
    IF product_metadata = Null THEN "Failed to extract product metadata" ELSE Null

\* generate_ad, "Compile results": the two checks, the metadata check first
CompileError ==
    IF product_metadata = Null THEN "Failed to extract product metadata"
    ELSE IF video_results = <<>> THEN "Failed to generate any videos"
    ELSE Null

\* generate_ad raises RuntimeError
CompileRaises ==
    /\ pc = "compile"
    /\ CompileError # Null
    /\ exc' = CompileError
    /\ pc' = "except"
    /\ UNCHANGED <<jobs, trace, agent_vars, tool_vars>>

\* run_generation_task: video_path = result.video_results[0].local_path
VideoPath(video_res) == IF video_res # <<>> THEN video_res[1].local_path ELSE Null

\* generate_ad returns and run_generation_task makes its final update
Complete ==
    /\ pc = "compile"
    /\ CompileError = Null
    /\ jobs' = update(jobs, JobId,
                CompletedFields(product_metadata,
                                IF video_prompt = Null THEN "" ELSE video_prompt,
                                VideoPath(video_results)))
    /\ trace' = Append(trace, Observe(jobs'))
    /\ pc' = "completed_log"
    /\ UNCHANGED <<exc, agent_vars, tool_vars>>

\* LogCompletion with an add_log that raises: the try block is left for the
\* except block after the COMPLETED update.
LogCompletionRaises ==
    /\ pc = "completed_log"
    /\ exc' = "add_log failed"
    /\ pc' = "except"
    /\ UNCHANGED <<jobs, trace, agent_vars, tool_vars>>

\* run_generation_task: the add_log that ends the try block and the task
LogCompletion ==
    /\ pc = "completed_log"
    /\ jobs' = add_log(jobs, JobId, "System", "Ad generation completed successfully")
    /\ pc' = "done"
    /\ UNCHANGED <<trace, exc, agent_vars, tool_vars>>

Next ==
    \/ TaskStart
    \/ MkdirRaises
    \/ ConstructRaises
    \/ ConstructAgent
    \/ GetMetadataCall
    \/ GetMetadataReturn
    \/ GenerateVideoCall
    \/ \E p \in Providers : StartPipeline(p)
    \/ \E p \in Providers : SubmitReturns(p)
    \/ \E p \in Providers : Poll(p)
    \/ \E p \in Providers : WaitTimeout(p)
    \/ \E p \in Providers : Download(p)
    \/ Aggregate
    \/ UnexpectedError
    \/ AgentEnds
    \/ AgentRaises
    \/ CompileRaises
    \/ Complete
    \/ LogCompletion
    \/ HandleException
    \/ LogFailure

Spec == Init /\ [][Next]_vars

\* Every external call returns or raises and the task is always scheduled
\* again: a step that is possible is eventually taken.
FairSpec == Spec /\ WF_vars(Next)


\* ------------------------------------------------------ wait_for_completion

\* Everything of the task and the agent at rest: the state around a call of a
\* client or store operation on its own.
TaskIdle ==
    /\ pc = "idle"
    /\ exc = Null
    /\ use_veo3 = FALSE
    /\ tracks_result = FALSE
    /\ product_metadata = Null
    /\ video_results = <<>>
    /\ video_prompt = Null
    /\ resolver_session = "None"
    /\ calls = 0
    /\ results = <<>>
    /\ errors = <<>>
    /\ pipe = [p \in Providers |-> IdlePipe]
    /\ payload = NoPayload
    /\ trace = <<>>

\* An empty JobStore._jobs
NoJobs == [id \in {} |-> Null]

\* timeout_seconds and poll_interval passed to wait_for_completion
Timeouts == 0..MaxTimeout

Intervals == 1..MaxInterval

\* Responses to the status checks of a wait on its own.
WaitOutcomes == PollOutcomes \cup {"pending"}

Terminated == {VIDEO_COMPLETED, VIDEO_FAILED}

\* The loop body that goes on polling after a FAILED status.
WaitStepIgnoresFailed(w, o) ==
    IF o \in CheckRaises
    THEN [w EXCEPT !.at = "raised_error"]
    ELSE LET result == check_status(o)
             polled == [w EXCEPT !.seen = Append(@, result.status),
                                 !.result = result]
         IN  IF result.status = VIDEO_COMPLETED
             THEN [polled EXCEPT !.at = "returned"]
             ELSE [polled EXCEPT !.slept = @ + w.poll_interval,
                                 !.elapsed = @ + w.poll_interval]

\* wait_for_completion: the loop body, for the response o to its check_status
WaitStep(w, o) ==
    IF o \in CheckRaises
    THEN [w EXCEPT !.at = "raised_error"]
    ELSE LET result == check_status(o)
             polled == [w EXCEPT !.seen = Append(@, result.status),
                                 !.result = result]
         IN  IF result.status = VIDEO_COMPLETED
             THEN [polled EXCEPT !.at = "returned"]
             ELSE IF result.status = VIDEO_FAILED
             THEN [polled EXCEPT !.at = "raised_failed"]
             ELSE [polled EXCEPT !.slept = @ + w.poll_interval,
                                 !.elapsed = @ + w.poll_interval]

\* wait_for_completion(task_id, timeout_seconds, poll_interval) is called.
WaitInit ==
    /\ TaskIdle
    /\ jobs = NoJobs
    /\ store = IdleStore
    /\ conc = IdleConc
    /\ meta = IdleMeta
    /\ client = IdleClient
    /\ http = IdleHttp
    /\ reply = IdleReply
    /\ \E t \in Timeouts, i \in Intervals :
        wait = [IdleWait EXCEPT !.at = "loop", !.timeout_seconds = t,
                                !.poll_interval = i]

task_frame == <<pc, exc, use_veo3, tracks_result, product_metadata, video_results,
                video_prompt, resolver_session, calls, results, errors, pipe, payload, trace>>

lib_frame == <<task_frame, conc, meta, client, http, reply>>

\* One iteration of the loop.
WaitPoll ==
    /\ wait.at = "loop"
    /\ ~WaitExpired(wait.elapsed, wait.timeout_seconds)
    /\ \E o \in WaitOutcomes : wait' = WaitStep(wait, o)
    /\ UNCHANGED <<jobs, store, lib_frame>>

\* The loop test fails: raise the timeout error.
WaitRaisesTimeout ==
    /\ wait.at = "loop"
    /\ WaitExpired(wait.elapsed, wait.timeout_seconds)
    /\ wait' = [wait EXCEPT !.at = "raised_timeout"]
    /\ UNCHANGED <<jobs, store, lib_frame>>

WaitNext == WaitPoll \/ WaitRaisesTimeout

WaitSpec == WaitInit /\ [][WaitNext]_vars


\* ----------------------------------------------------------- JobStore alone

\* JobStore.create with job_id the id uuid4 returned
create(js, job_id, product_url) ==
    [id \in DOMAIN js \cup {job_id} |->
        IF id = job_id THEN NewJob(product_url) ELSE js[id]]

\* The URLs passed to create.
StoreUrls == Urls \cup {"https://shop.example/p/gadget"}

\* The keyword arguments passed to update: fields of JobStatus and a name that
\* is no field of it.
UpdateKwargs ==
    {[stage |-> GENERATING_VIDEO, progress_percent |-> 50, no_such_field |-> "x"]}

\* A default that every instance takes as the one object of the class body.
class_default(job_id, field) == <<"JobStatus", field>>

\* The object a new JobStatus holds in a field left to its default: the model
\* class copies the default of the class body for each instance.
field_default(job_id, field) == <<job_id, field>>

\* The records other than job_id whose logs field holds the list object that
\* the logs field of job_id holds.
SharingLogs(js, list_of, job_id) ==
    {id \in DOMAIN js \ {job_id} :
        job_id \in DOMAIN js /\ list_of[id] = list_of[job_id]}

\* A fresh JobStore.
StoreInit ==
    /\ TaskIdle
    /\ jobs = NoJobs
    /\ wait = IdleWait
    /\ conc = IdleConc
    /\ meta = IdleMeta
    /\ client = IdleClient
    /\ http = IdleHttp
    /\ reply = IdleReply
    /\ store = IdleStore

\* job_store.create(product_url)
StoreCreate ==
    /\ \E id \in JobIds, u \in StoreUrls :
        /\ jobs' = create(jobs, id, u)
        /\ store' = [op |-> "create", id |-> id, known |-> id \in DOMAIN jobs,
                     url |-> u, added |-> [store.added EXCEPT ![id] = 0],
                     list_of |-> [store.list_of EXCEPT
                                     ![id] = field_default(id, "logs")]]
    /\ UNCHANGED <<wait, lib_frame>>

\* job_store.update(job_id, **kwargs)
StoreUpdate ==
    /\ \E id \in JobIds, kwargs \in UpdateKwargs :
        /\ jobs' = update(jobs, id, kwargs)
        /\ store' = [store EXCEPT !.op = "update", !.id = id,
                                  !.known = id \in DOMAIN jobs, !.url = Null]
    /\ UNCHANGED <<wait, lib_frame>>

\* job_store.add_log(job_id, source, message); the message is the number of the
\* call on that record. job.logs.append changes the list in place, so every
\* record that holds the same list sees the entry; job.logs = job.logs[-50:]
\* gives the record a list of its own.
StoreAddLog ==
    /\ \E id \in JobIds :
        /\ store.added[id] < MaxLogs
        /\ jobs' =
            [i \in DOMAIN jobs |->
                IF i \in SharingLogs(jobs, store.list_of, id)
                THEN [jobs[i] EXCEPT !.logs =
                         Append(@, [source |-> "Agent",
                                    message |-> store.added[id] + 1])]
                ELSE add_log(jobs, id, "Agent", store.added[id] + 1)[i]]
        /\ store' = [store EXCEPT !.op = "add_log", !.id = id,
                                  !.known = id \in DOMAIN jobs, !.url = Null,
                                  !.added[id] = IF id \in DOMAIN jobs THEN @ + 1 ELSE @,
                                  !.list_of[id] =
                                      IF id \in DOMAIN jobs /\ Len(jobs[id].logs) >= LogCap
                                      THEN <<id, "logs[-50:]">> ELSE @]
    /\ UNCHANGED <<wait, lib_frame>>

StoreNext == StoreCreate \/ StoreUpdate \/ StoreAddLog

StoreSpec == StoreInit /\ [][StoreNext]_vars


\* ------------------------------------------------- JobStore under threads

\* A lock that every caller finds free.
LockIgnored(lock) == TRUE

\* with self._lock: the caller enters when no thread holds the lock
LockFree(lock) == lock = Null

\* The keyword arguments of UpdateKwargs in the order the call passes them.
UpdateKeys == <<"stage", "progress_percent", "no_such_field">>

\* if hasattr(job, key): setattr(job, key, value)
setattr(js, job_id, key, value) ==
    IF key \in DOMAIN js[job_id] THEN [js EXCEPT ![job_id][key] = value] ELSE js

\* What a reader sees of a record it holds.
SeenOf(job) == [stage |-> job.stage, progress_percent |-> job.progress_percent,
                logs |-> Len(job.logs)]

\* The operations a writer thread may call.
WriterOps == {"create", "update", "add_log"}

\* A store that holds one job, one entry short of the cap of its log: the
\* store after create and 49 add_log calls.
BusyStore ==
    JobId :> [NewJob(JobId) EXCEPT !.logs =
                [i \in 1..(LogCap - 1) |-> [source |-> "Agent", message |-> i]]]

ConcInit ==
    /\ TaskIdle
    /\ jobs = BusyStore
    /\ wait = IdleWait
    /\ store = IdleStore
    /\ conc = [IdleConc EXCEPT !.serial = BusyStore, !.issued = LogCap - 1]
    /\ meta = IdleMeta
    /\ client = IdleClient
    /\ http = IdleHttp
    /\ reply = IdleReply

conc_frame == <<wait, store, task_frame, meta, client, http, reply>>

\* A writer calls create, update or add_log and enters `with self._lock`.
BeginOp(t) ==
    /\ conc.th[t].pc = "idle"
    /\ LockFree(conc.lock)
    /\ \E op \in WriterOps, id \in JobIds, kwargs \in UpdateKwargs :
        /\ conc.begun < MaxWrites
        /\ LET msg == IF op = "add_log" THEN conc.issued + 1 ELSE 0
           IN  conc' = [conc EXCEPT
                    !.lock = t,
                    !.begun = @ + 1,
                    !.issued = IF op = "add_log" THEN @ + 1 ELSE @,
                    !.th[t] = [IdleThread EXCEPT !.pc = "body", !.op = op,
                                                 !.id = id, !.i = 1, !.msg = msg],
                    !.serial =
                        CASE op = "create" -> create(@, id, JobId)
                          [] op = "update" -> update(@, id, kwargs)
                          [] op = "add_log" -> add_log(@, id, "Agent", msg)]
    /\ UNCHANGED <<jobs, conc_frame>>

\* create: self._jobs[job_id] = JobStatus(...)
CreateAssign(t) ==
    /\ conc.th[t].pc = "body"
    /\ conc.th[t].op = "create"
    /\ jobs' = create(jobs, conc.th[t].id, JobId)
    /\ conc' = [conc EXCEPT !.th[t].pc = "release"]
    /\ UNCHANGED conc_frame

\* update: one turn of `for key, value in kwargs.items()`
UpdateSetattr(t) ==
    /\ conc.th[t].pc = "body"
    /\ conc.th[t].op = "update"
    /\ LET me == conc.th[t]
           kwargs == CHOOSE k \in UpdateKwargs : TRUE
       IN  IF me.id \notin DOMAIN jobs \/ me.i > Len(UpdateKeys)
           THEN /\ conc' = [conc EXCEPT !.th[t].pc = "release"]
                /\ UNCHANGED jobs
           ELSE /\ jobs' = setattr(jobs, me.id, UpdateKeys[me.i],
                                   kwargs[UpdateKeys[me.i]])
                /\ conc' = [conc EXCEPT !.th[t].i = @ + 1]
    /\ UNCHANGED conc_frame

\* add_log: job.logs.append(LogEntry(...)) and the test of the length
AddLogAppend(t) ==
    /\ conc.th[t].pc = "body"
    /\ conc.th[t].op = "add_log"
    /\ LET me == conc.th[t]
       IN  IF me.id \notin DOMAIN jobs
           THEN /\ conc' = [conc EXCEPT !.th[t].pc = "release"]
                /\ UNCHANGED jobs
           ELSE /\ jobs' = [jobs EXCEPT ![me.id].logs =
                                Append(@, [source |-> "Agent", message |-> me.msg])]
                /\ conc' = [conc EXCEPT !.th[t].pc =
                                IF Len(jobs[me.id].logs) + 1 > LogCap
                                THEN "slice" ELSE "release"]
    /\ UNCHANGED conc_frame

\* add_log: job.logs[-50:] is evaluated
AddLogSlice(t) ==
    /\ conc.th[t].pc = "slice"
    /\ conc' = [conc EXCEPT !.th[t].pc = "assign",
                            !.th[t].tmp = LastLogs(jobs[conc.th[t].id].logs)]
    /\ UNCHANGED <<jobs, conc_frame>>

\* add_log: job.logs = <the slice>
AddLogAssign(t) ==
    /\ conc.th[t].pc = "assign"
    /\ jobs' = [jobs EXCEPT ![conc.th[t].id].logs = conc.th[t].tmp]
    /\ conc' = [conc EXCEPT !.th[t].pc = "release"]
    /\ UNCHANGED conc_frame

\* The with block is left.
EndOp(t) ==
    /\ conc.th[t].pc = "release"
    /\ conc' = [conc EXCEPT !.lock = IF @ = t THEN Null ELSE @,
                            !.th[t] = IdleThread]
    /\ UNCHANGED <<jobs, conc_frame>>

\* get(job_id): return self._jobs.get(job_id), the lock not taken
ReaderGet ==
    /\ \E id \in DOMAIN jobs : conc' = [conc EXCEPT !.seen = {SeenOf(jobs[id])}]
    /\ UNCHANGED <<jobs, conc_frame>>

\* list_all(): return list(self._jobs.values()), the lock not taken
ReaderListAll ==
    /\ conc' = [conc EXCEPT !.seen = {SeenOf(jobs[id]) : id \in DOMAIN jobs}]
    /\ UNCHANGED <<jobs, conc_frame>>

ConcNext ==
    \/ \E t \in Writers : BeginOp(t)
    \/ \E t \in Writers : CreateAssign(t)
    \/ \E t \in Writers : UpdateSetattr(t)
    \/ \E t \in Writers : AddLogAppend(t)
    \/ \E t \in Writers : AddLogSlice(t)
    \/ \E t \in Writers : AddLogAssign(t)
    \/ \E t \in Writers : EndOp(t)
    \/ ReaderGet
    \/ ReaderListAll

ConcSpec == ConcInit /\ [][ConcNext]_vars


\* ---------------------------------------------------------- _merge_metadata

\* The sequences over S of length at most n.
BoundedSeq(S, n) == UNION {[1..k -> S] : k \in 0..n}

\* Values of a scalar field (title, description, price, brand) as the AI
\* strategy returns it: missing or None, empty, or a text.
TfScalars == {Null, "", "ai"}

\* Values of an optional scalar field as the HTML strategy returns it.
HtmlScalars == {Null, "", "html"}

\* Titles the HTML strategy returns (title: str).
HtmlTitles == {"", "html"}

\* Entries of the images and features lists.
ListValues == {"", "a", "b"}

\* prefer_tinyfish that takes the HTML value whenever there is one.
prefer_html(tf_value, html_value) ==
    IF html_value # Null /\ html_value # "" THEN html_value ELSE tf_value

\* prefer_tinyfish(tf_value, html_value)
prefer_tinyfish(tf_value, html_value) ==
    IF tf_value # Null /\ tf_value # "" THEN tf_value ELSE html_value

\* unique that keeps a value each time it occurs.
unique_keeps_all(values) == SelectSeq(values, LAMBDA v : v # "")

\* The loop `for img in ...: if img and img not in seen: append, add`; the set
\* seen is the set of the values appended so far.
RECURSIVE unique_from(_, _)
unique_from(values, merged) ==
    IF values = <<>>
    THEN merged
    ELSE LET img == Head(values)
             seen == {merged[i] : i \in 1..Len(merged)}
         IN  unique_from(Tail(values),
                         IF img # "" /\ img \notin seen
                         THEN Append(merged, img) ELSE merged)

unique(values) == unique_from(values, <<>>)

\* ProductMetadata(...)
ProductMetadata(title, description, images, price, brand, features) ==
    [title |-> title, description |-> description, images |-> images,
     price |-> price, brand |-> brand, features |-> features]

\* The dictionary the AI strategy returned, none when it returned nothing.
TinyfishData(none, title, description, images, price, brand, features) ==
    [none |-> none, title |-> title, description |-> description,
     images |-> images, price |-> price, brand |-> brand, features |-> features]

\* x or "Unknown Product"
OrUnknown(x) == IF x = Null \/ x = "" THEN "Unknown Product" ELSE x

\* _merge_metadata(html_metadata, tinyfish_data, url)
merge_metadata(html_metadata, tinyfish_data) ==
    IF tinyfish_data.none
    THEN html_metadata
    ELSE ProductMetadata(
            OrUnknown(prefer_tinyfish(tinyfish_data.title, html_metadata.title)),
            prefer_tinyfish(tinyfish_data.description, html_metadata.description),
            unique(tinyfish_data.images \o html_metadata.images),
            prefer_tinyfish(tinyfish_data.price, html_metadata.price),
            prefer_tinyfish(tinyfish_data.brand, html_metadata.brand),
            unique(tinyfish_data.features \o html_metadata.features))

\* _merge_metadata is called. The three optional scalars get one pair of
\* values and the two lists one pair of lists: the fields are merged one by
\* one, each by the same code.
MergeInit ==
    /\ TaskIdle
    /\ jobs = NoJobs
    /\ wait = IdleWait
    /\ store = IdleStore
    /\ conc = IdleConc
    /\ client = IdleClient
    /\ http = IdleHttp
    /\ reply = IdleReply
    /\ \E none \in BOOLEAN, tf_title \in TfScalars, html_title \in HtmlTitles,
          tf_value \in TfScalars, html_value \in HtmlScalars,
          tf_list \in BoundedSeq(ListValues, MaxLen),
          html_list \in BoundedSeq(ListValues, MaxLen) :
        meta = [phase |-> "merge",
                html |-> ProductMetadata(html_title, html_value, html_list,
                                         html_value, html_value, html_list),
                tf |-> TinyfishData(none, tf_title, tf_value, tf_list,
                                    tf_value, tf_value, tf_list)]

\* _merge_metadata returns.
Merge ==
    /\ meta.phase = "merge"
    /\ meta' = [phase |-> "merged", html |-> meta.html, tf |-> meta.tf,
                out |-> merge_metadata(meta.html, meta.tf)]
    /\ UNCHANGED <<jobs, wait, store, conc, client, http, reply, task_frame>>

MergeNext == Merge

MergeSpec == MergeInit /\ [][MergeNext]_vars


\* ------------------------------------------- extract_product_metadata

\* A JSON value that is neither a string nor null (an object, a number).
JsonObject == "<object>"

\* What one <script type="application/ld+json"> holds: text that is not JSON,
\* an item of another type, or a Product whose "name" is null, missing or
\* empty (both read as ""), or a text.
LdItems ==
    {[type |-> "invalid", name |-> ""], [type |-> "Organization", name |-> ""]}
        \cup {[type |-> "Product", name |-> n] : n \in {Null, "", "Ld Widget"}}

\* content of <meta property="og:title">; Null when the page has no such tag.
OgTitles == {Null, "", "Og Widget"}

\* Text of <title>; Null when the page has none.
TitleTags == {Null, "Widget - Shop"}

\* Text of the first <h1>; Null when the page has none.
H1Tags == {Null, "Widget", "The Widget Page Heading"}

\* len(s) of the texts above
len(s) ==
    CASE s = "" -> 0
      [] s = "Widget" -> 6
      [] s = "Widget - Shop" -> 13
      [] s = "The Widget Page Heading" -> 23

\* A page whose fetch or parse raised.
NoPage == [fetched |-> FALSE, json_ld |-> <<>>, og_title |-> Null,
           title_tag |-> Null, h1 |-> Null]

\* The pages a URL may lead to.
Pages ==
    {NoPage} \cup
    [fetched : {TRUE}, json_ld : BoundedSeq(LdItems, MaxItems),
     og_title : OgTitles, title_tag : TitleTags, h1 : H1Tags]

\* What a strategy hands back: an exception, None, or metadata with a title.
Raised == [raised |-> TRUE, found |-> FALSE, title |-> ""]
NotFound == [raised |-> FALSE, found |-> FALSE, title |-> ""]
Found(title) == [raised |-> FALSE, found |-> TRUE, title |-> title]

\* _parse_product_schema: ProductMetadata(title=data.get("name", "")) raises
\* a ValidationError when the name is not a string.
parse_product_schema(item) ==
    IF item.name = Null THEN Raised ELSE Found(item.name)

\* _extract_from_json_ld: the first Product item is parsed and returned; a
\* script that is not JSON is skipped; a ValidationError is not caught here.
RECURSIVE extract_from_json_ld(_)
extract_from_json_ld(scripts) ==
    IF scripts = <<>> THEN NotFound
    ELSE IF Head(scripts).type = "Product"
         THEN parse_product_schema(Head(scripts))
         ELSE extract_from_json_ld(Tail(scripts))

\* _extract_from_open_graph
extract_from_open_graph(page) ==
    IF page.og_title = Null \/ page.og_title = "" THEN NotFound
    ELSE Found(page.og_title)

\* _extract_fallback: the <title> text, or the <h1> text when it is shorter.
extract_fallback(page) ==
    LET title == IF page.title_tag # Null THEN page.title_tag ELSE ""
    IN  IF page.h1 # Null /\ page.h1 # "" /\ len(page.h1) < len(title)
        THEN Found(page.h1)
        ELSE Found(title)

\* The ProductMetadata a strategy of _extract_via_html builds around a title.
HtmlMetadata(title) == ProductMetadata(title, Null, <<>>, Null, Null, <<>>)

\* _extract_via_html: the three strategies in order inside one try block; any
\* exception gives the metadata with the empty title.
extract_via_html(page) ==
    LET ld == extract_from_json_ld(page.json_ld)
        og == extract_from_open_graph(page)
    IN  IF ~page.fetched \/ ld.raised THEN HtmlMetadata("")
        ELSE IF ld.found /\ ld.title # "" THEN HtmlMetadata(ld.title)
        ELSE IF og.found /\ og.title # "" THEN HtmlMetadata(og.title)
        ELSE HtmlMetadata(extract_fallback(page).title)

\* How the AI strategy ends inside extract_product_metadata: not tried
\* (MINO_API_KEY unset), TinyFishError, another exception, a dictionary, or a
\* resultJson whose title is not a string.
TinyfishOutcomes == {"no_key", "TinyFishError", "Exception", "data", "malformed"}

\* tinyfish_data after the try block of extract_product_metadata
tinyfish_data(outcome, title) ==
    IF outcome \in {"data", "malformed"}
    THEN TinyfishData(FALSE, title, Null, <<>>, Null, Null, <<>>)
    ELSE TinyfishData(TRUE, Null, Null, <<>>, Null, Null, <<>>)

\* _merge_metadata raises: ProductMetadata(title=...) with a title that is
\* not a string.
MergeRaises(tf) == ~tf.none /\ tf.title = JsonObject

\* The URLs given to get_product_metadata: with and without a path.
ExtractUrls == {"https://shop.example.com/products/blue-widget",
                "https://shop.example.com"}

\* get_product_metadata, except branch: the last path part with "-" and "_"
\* replaced by spaces, title-cased; "product" when the path is empty.
product_name(url) ==
    IF url = "https://shop.example.com/products/blue-widget"
    THEN "Blue Widget"
    ELSE "Product"

\* get_product_metadata, except branch: the first label of the host without
\* "www.", title-cased.
brand_guess(url) == "Shop"

\* get_product_metadata that captures metadata only when nothing was raised.
captured_on_success(raised) == IF raised THEN Null ELSE "extracted"

\* Which branch of get_product_metadata set self._product_metadata.
captured_outcome(raised) == IF raised THEN "fallback" ELSE "extracted"

\* get_product_metadata(url) is called: the page behind the URL and the end
\* of the AI strategy are fixed from the start.
ExtractInit ==
    /\ TaskIdle
    /\ jobs = NoJobs
    /\ wait = IdleWait
    /\ store = IdleStore
    /\ conc = IdleConc
    /\ client = IdleClient
    /\ http = IdleHttp
    /\ reply = IdleReply
    /\ \E url \in ExtractUrls, page \in Pages, outcome \in TinyfishOutcomes,
          title \in TfScalars :
        /\ outcome = "data" \/ title = Null
        /\ meta = [phase |-> "tinyfish", url |-> url, page |-> page,
                   outcome |-> outcome,
                   tf_title |-> IF outcome = "malformed" THEN JsonObject
                                ELSE title]

\* extract_product_metadata: the try block around _extract_via_tinyfish
ExtractViaTinyfish ==
    /\ meta.phase = "tinyfish"
    /\ meta' = [phase |-> "html", url |-> meta.url, page |-> meta.page,
                outcome |-> meta.outcome,
                tf |-> tinyfish_data(meta.outcome, meta.tf_title)]
    /\ UNCHANGED <<jobs, wait, store, conc, client, http, reply, task_frame>>

\* extract_product_metadata: html_metadata = await html_task
ExtractViaHtml ==
    /\ meta.phase = "html"
    /\ meta' = [phase |-> "merge_return", url |-> meta.url, page |-> meta.page,
                outcome |-> meta.outcome, tf |-> meta.tf,
                html |-> extract_via_html(meta.page)]
    /\ UNCHANGED <<jobs, wait, store, conc, client, http, reply, task_frame>>

\* extract_product_metadata returns _merge_metadata(...) or raises, and
\* get_product_metadata captures the metadata or those derived from the URL.
GetProductMetadataReturns ==
    /\ meta.phase = "merge_return"
    /\ LET raised == MergeRaises(meta.tf)
           captured ==
               IF raised
               THEN ProductMetadata(product_name(meta.url), Null, <<>>, Null,
                                    brand_guess(meta.url), <<>>)
               ELSE merge_metadata(meta.html, meta.tf)
       IN  /\ meta' = [phase |-> "returned", url |-> meta.url,
                       page |-> meta.page, outcome |-> meta.outcome,
                       tf |-> meta.tf, html |-> meta.html,
                       raised |-> raised, captured |-> captured,
                       isError |-> raised]
           /\ product_metadata' = captured_outcome(raised)
    /\ UNCHANGED <<jobs, wait, store, conc, client, http, reply, pc, exc, use_veo3,
                   tracks_result, resolver_session, video_results, video_prompt, calls, results, errors, pipe,
                   payload, trace>>

ExtractNext ==
    \/ ExtractViaTinyfish
    \/ ExtractViaHtml
    \/ GetProductMetadataReturns

ExtractSpec == ExtractInit /\ [][ExtractNext]_vars


\* -------------------------------------------------------------- API clients

\* The five client classes; each has the same constructor, __aenter__,
\* __aexit__ and guard at the head of its network operations.
Clients == {"AgentQL", "FreePik", "KieAI", "TinyFish", "Yutori"}

\* The exception class of a client.
ErrorOf(kind) ==
    CASE kind = "AgentQL" -> "AgentQLError"
      [] kind = "FreePik" -> "FreePikError"
      [] kind = "KieAI" -> "KieAIError"
      [] kind = "TinyFish" -> "TinyFishError"
      [] kind = "Yutori" -> "YutoriError"

\* The api_key argument: not given (None), empty, or a key.
ArgKeys == {Null, "", "arg-key"}

\* The client's environment variable: unset, empty, or a key.
EnvKeys == {Null, "", "env-key"}

\* `not x` of an optional string
Falsy(x) == x = Null \/ x = ""

\* api_key or os.environ.get(...), with the environment variable first.
env_or_api_key(api_key, env) == IF ~Falsy(env) THEN env ELSE api_key

\* api_key or os.environ.get(...)
api_key_or_env(api_key, env) == IF ~Falsy(api_key) THEN api_key ELSE env

\* What the last call on the client did: the session it found, the exception
\* it raised, whether a request was sent.
Called(session, error, message, sent) ==
    [session |-> session, error |-> error, message |-> message, sent |-> sent]

NotCalled == Called(Null, Null, Null, FALSE)

\* A client class is about to be instantiated.
ClientInit ==
    /\ TaskIdle
    /\ jobs = NoJobs
    /\ wait = IdleWait
    /\ store = IdleStore
    /\ conc = IdleConc
    /\ meta = IdleMeta
    /\ http = IdleHttp
    /\ reply = IdleReply
    /\ \E kind \in Clients, api_key \in ArgKeys, env \in EnvKeys :
        client = [at |-> "new", kind |-> kind, arg |-> api_key, env |-> env,
                  api_key |-> Null, session |-> "None", requests |-> 0,
                  ops |-> 0, last |-> NotCalled]

\* __init__: the key, or the client's error; self._client = None
Construct ==
    /\ client.at = "new"
    /\ LET key == api_key_or_env(client.arg, client.env)
       IN  IF Falsy(key)
           THEN client' = [client EXCEPT
                    !.at = "raised",
                    !.last = Called("None", ErrorOf(client.kind),
                                    "API key not provided", FALSE)]
           ELSE client' = [client EXCEPT !.at = "ready", !.api_key = key]
    /\ UNCHANGED <<jobs, wait, store, conc, meta, http, reply, task_frame>>

\* __aenter__: self._client = httpx.AsyncClient(...)
Enter ==
    /\ client.at = "ready"
    /\ client.session # "open"
    /\ client' = [client EXCEPT !.session = "open"]
    /\ UNCHANGED <<jobs, wait, store, conc, meta, http, reply, task_frame>>

\* __aexit__: the session is closed; self._client keeps the closed object.
Exit ==
    /\ client.at = "ready"
    /\ client.session = "open"
    /\ client' = [client EXCEPT !.session = "closed"]
    /\ UNCHANGED <<jobs, wait, store, conc, meta, http, reply, task_frame>>

\* A network operation (extract_product, generate_video, check_status,
\* download_video, create_research_task, ...): the guard `if not self._client`,
\* then the request; httpx refuses a request on a closed AsyncClient with a
\* RuntimeError; a request that is sent succeeds or gives the client's error.
Operation ==
    /\ client.at = "ready"
    /\ client.ops < MaxOps
    /\ \E ok \in BOOLEAN :
        client' = [client EXCEPT
            !.ops = @ + 1,
            !.requests = IF client.session = "open" THEN @ + 1 ELSE @,
            !.last =
                CASE client.session = "None" ->
                        Called("None", ErrorOf(client.kind),
                               "Client not initialized", FALSE)
                  [] client.session = "closed" ->
                        Called("closed", "RuntimeError",
                               "client has been closed", FALSE)
                  [] client.session = "open" ->
                        Called("open", IF ok THEN Null ELSE ErrorOf(client.kind),
                               IF ok THEN Null ELSE "API error", TRUE)]
    /\ UNCHANGED <<jobs, wait, store, conc, meta, http, reply, task_frame>>

ClientNext ==
    \/ Construct
    \/ Enter
    \/ Exit
    \/ Operation

ClientSpec == ClientInit /\ [][ClientNext]_vars


\* ------------------------------------------------------------ HTTP endpoints

\* The deployments: the FastAPI server of api.py, the serverless handler of
\* api/index.py with its module-level dict, and that of api/generate.py.
Profiles == {"server", "index", "generate"}

\* Bodies of POST /api/generate: text that is not JSON, JSON that is no
\* object, an object without "url", with an empty one, with one that is no
\* URL, with a URL.
Bodies == {"not_json", "not_object", "no_url", "empty_url", "bad_url", "good_url"}

\* data.get("url") of a body that is a JSON object
UrlOf(body) ==
    CASE body = "no_url" -> Null
      [] body = "empty_url" -> ""
      [] body = "bad_url" -> "not a url"
      [] body = "good_url" -> "https://shop.example/p/widget"

\* An HTTP exchange: the request and the answer to it.
Exchange(method, path, id, status, body) ==
    [method |-> method, path |-> path, id |-> id, status |-> status, body |-> body]

\* The job the handler of api/index.py stores.
DemoJob(job_id, url) ==
    [job_id |-> job_id, product_url |-> url, stage |-> QUEUED,
     progress_percent |-> 0]

\* A deployment that has served nothing; files holds the job ids whose video
\* file exists, before and had the store and the files as the latest request
\* found them.
HttpInit ==
    /\ TaskIdle
    /\ jobs = NoJobs
    /\ wait = IdleWait
    /\ store = IdleStore
    /\ conc = IdleConc
    /\ meta = IdleMeta
    /\ client = IdleClient
    /\ reply = IdleReply
    /\ \E profile \in Profiles :
        http = [profile |-> profile, served |-> 0, files |-> {},
                before |-> NoJobs, had |-> {},
                last |-> Exchange(Null, Null, Null, 0, Null)]

\* GenerateResponse that reports the stage the job will have next.
GenerateResponseStarted(job_id) == [job_id |-> job_id, status |-> "started"]

\* GenerateResponse(job_id=job_id, status="queued")
GenerateResponse(job_id) == [job_id |-> job_id, status |-> "queued"]

\* POST /api/generate of api.py: FastAPI validates the body against
\* GenerateRequest (url: HttpUrl) and answers 422 when that fails.
ServerGenerate(body, job_id) ==
    IF body = "good_url"
    THEN /\ jobs' = create(jobs, job_id, UrlOf(body))
         /\ http' = [http EXCEPT !.served = @ + 1, !.before = jobs, !.had = http.files,
                !.last = Exchange("POST", "generate", body, 200,
                                  GenerateResponse(job_id))]
    ELSE /\ http' = [http EXCEPT !.served = @ + 1, !.before = jobs, !.had = http.files,
                !.last = Exchange("POST", "generate", body, 422, Null)]
         /\ UNCHANGED jobs

\* do_POST of api/index.py: 400 for text that is not JSON and for a missing
\* or empty url; data.get on JSON that is no object raises AttributeError,
\* which nothing catches (500).
IndexGenerate(body, job_id) ==
    CASE body = "not_json" ->
            /\ http' = [http EXCEPT !.served = @ + 1, !.before = jobs, !.had = http.files,
                   !.last = Exchange("POST", "generate", body, 400, Null)]
            /\ UNCHANGED jobs
      [] body = "not_object" ->
            /\ http' = [http EXCEPT !.served = @ + 1, !.before = jobs, !.had = http.files,
                   !.last = Exchange("POST", "generate", body, 500, Null)]
            /\ UNCHANGED jobs
      [] body \in {"no_url", "empty_url"} ->
            /\ http' = [http EXCEPT !.served = @ + 1, !.before = jobs, !.had = http.files,
                   !.last = Exchange("POST", "generate", body, 400, Null)]
            /\ UNCHANGED jobs
      [] OTHER ->
            /\ jobs' = [id \in DOMAIN jobs \cup {job_id} |->
                          IF id = job_id THEN DemoJob(job_id, UrlOf(body))
                          ELSE jobs[id]]
            /\ http' = [http EXCEPT !.served = @ + 1, !.before = jobs, !.had = http.files,
                   !.last = Exchange("POST", "generate", body, 200,
                                     GenerateResponse(job_id))]

\* do_POST of api/generate.py: 400 for text that is not JSON; otherwise a job
\* is built and returned with 200, whatever the url; nothing is stored.
DemoGenerate(body, job_id) ==
    /\ http' = [http EXCEPT !.served = @ + 1, !.before = jobs, !.had = http.files,
           !.last = Exchange("POST", "generate", body,
                             CASE body = "not_json" -> 400
                               [] body = "not_object" -> 500
                               [] OTHER -> 200,
                             IF body \in {"not_json", "not_object"} THEN Null
                             ELSE GenerateResponse(job_id))]
    /\ UNCHANGED jobs

\* POST /api/generate
PostGenerate ==
    /\ http.profile \in Profiles
    /\ http.served < MaxRequests
    /\ \E body \in Bodies, job_id \in JobIds :
        CASE http.profile = "server" -> ServerGenerate(body, job_id)
          [] http.profile = "index" -> IndexGenerate(body, job_id)
          [] http.profile = "generate" -> DemoGenerate(body, job_id)
    /\ UNCHANGED <<wait, store, conc, meta, client, reply, task_frame>>

\* get_job_status that answers 200 with an empty body for an unknown id.
get_job_status_lenient(js, job_id) ==
    IF job_id \in DOMAIN js THEN <<200, js[job_id]>> ELSE <<200, Null>>

\* get_job_status of api.py; do_GET of api/index.py, path /api/status/
get_job_status(js, job_id) ==
    IF job_id \in DOMAIN js THEN <<200, js[job_id]>> ELSE <<404, Null>>

\* GET /api/status/{job_id}
GetStatus ==
    /\ http.profile \in {"server", "index"}
    /\ http.served < MaxRequests
    /\ \E job_id \in JobIds :
        http' = [http EXCEPT !.served = @ + 1, !.before = jobs, !.had = http.files,
            !.last = Exchange("GET", "status", job_id,
                              get_job_status(jobs, job_id)[1],
                              get_job_status(jobs, job_id)[2])]
    /\ UNCHANGED <<jobs, wait, store, conc, meta, client, reply, task_frame>>

\* download_video of api.py: the three 404 answers, then the file. do_GET of
\* api/index.py has no such path and answers 404.
download_video(profile, js, files, job_id) ==
    IF profile = "index" THEN 404
    ELSE IF job_id \notin DOMAIN js THEN 404
    ELSE IF js[job_id].video_path = Null THEN 404
    ELSE IF job_id \notin files THEN 404
    ELSE 200

\* GET /api/download/{job_id}
GetDownload ==
    /\ http.profile \in {"server", "index"}
    /\ http.served < MaxRequests
    /\ \E job_id \in JobIds :
        http' = [http EXCEPT !.served = @ + 1, !.before = jobs, !.had = http.files,
            !.last = Exchange("GET", "download", job_id,
                              download_video(http.profile, jobs, http.files, job_id),
                              Null)]
    /\ UNCHANGED <<jobs, wait, store, conc, meta, client, reply, task_frame>>

\* run_generation_task completes a job of the server: video_path is the first
\* result's local_path, which may be None; the file is there or not.
TaskCompletes ==
    /\ http.profile = "server"
    /\ \E job_id \in DOMAIN jobs, video_path \in {Null, "out/video.mp4"},
          on_disk \in BOOLEAN :
        /\ jobs[job_id].stage = QUEUED
        /\ jobs' = update(jobs, job_id,
                          [stage |-> COMPLETED, progress_percent |-> 100,
                           video_path |-> video_path])
        /\ http' = [http EXCEPT
                !.files = IF on_disk /\ video_path # Null
                          THEN @ \cup {job_id} ELSE @ \ {job_id}]
    /\ UNCHANGED <<wait, store, conc, meta, client, reply, task_frame>>

HttpNext ==
    \/ PostGenerate
    \/ GetStatus
    \/ GetDownload
    \/ TaskCompletes

HttpSpec == HttpInit /\ [][HttpNext]_vars

\* --------------------------------------------------- provider responses

\* A key the JSON object lacks.
Absent == "absent"

\* HTTP status of a response: success, or one raise_for_status rejects.
HttpStatuses == {200, 500}

\* str.lower() on the status words tried.
lower(s) ==
    CASE s = "COMPLETED" -> "completed"
      [] s = "Done" -> "done"
      [] s = "In_Progress" -> "in_progress"
      [] OTHER -> s

\* The words a FreePik task's "status" may hold, besides a missing key and null.
StatusWords ==
    {"created", "pending", "queued", "processing", "in_progress", "completed",
     "done", "success", "COMPLETED", "Done", "In_Progress", "failed", "error",
     ""}

\* The "data" member of a FreePik status body.
FreepikTaskData ==
    {[kind |-> Absent], [kind |-> Null]}
        \cup [kind : {"object"}, status : StatusWords \cup {Absent, Null}]

FreepikResponses == [http : HttpStatuses, data : FreepikTaskData]

\* A call that returned a VideoGenerationResult, and one that raised.
Returns(status, task_id) == [status |-> status, task_id |-> task_id]
Raises(type, status_code) == [raises |-> type, status_code |-> status_code]

\* FreePikClient.check_status: the if/elif chain over status_str
freepik_status(status_str) ==
    IF status_str \in {"created", "pending", "queued"} THEN "pending"
    ELSE IF status_str \in {"processing", "in_progress"} THEN "processing"
    ELSE IF status_str \in {"completed", "done", "success"} THEN COMPLETED
    ELSE FAILED

\* FreePikClient.check_status: raise_for_status, data.get("data", {}),
\* task_data.get("status", "").lower(); a null has neither .get nor .lower.
freepik_check_status(resp) ==
    IF resp.http # 200 THEN Raises("FreePikError", resp.http)
    ELSE IF resp.data.kind = Null THEN Raises("AttributeError", 0)
    ELSE IF resp.data.kind = Absent THEN Returns(freepik_status(lower("")), "task")
    ELSE IF resp.data.status = Null THEN Raises("AttributeError", 0)
    ELSE IF resp.data.status = Absent THEN Returns(freepik_status(lower("")), "task")
    ELSE Returns(freepik_status(lower(resp.data.status)), "task")

\* Texts a Kie.ai body may hold in "msg" or "taskId"; the last two hold one of
\* the credit indicators.
Messages == {"", "success", "server busy", "insufficient credits"}
TaskIds == {"", "task-1", "quota-7"}

\* _is_credit_error: text is not empty and holds one of the indicators.
is_credit_error(text) == text \in {"insufficient credits", "quota-7"}

\* The "successFlag" of a Kie.ai record: a JSON number or boolean, written
\* as text.
SuccessFlags == {"0", "1", "2", "3", "false", "true", Null, Absent}

\* Python's success_flag == 0 and success_flag == 1: False equals 0 and True
\* equals 1.
EqualsZero(flag) == flag \in {"0", "false"}
EqualsOne(flag) == flag \in {"1", "true"}

\* The "data" member of a Kie.ai body.
KieTaskData ==
    {[kind |-> Absent], [kind |-> Null]}
        \cup [kind : {"object"}, taskId : TaskIds \cup {Absent, Null},
              successFlag : {"0"}]
        \cup [kind : {"object"}, taskId : {"task-1"}, successFlag : SuccessFlags]

\* The "code" of a Kie.ai body; 0 stands for a body without one.
KieCodes == {0, 200, 500}

KieBodies ==
    {[kind |-> "not_json"], [kind |-> "not_object"]}
        \cup [kind : {"object"}, code : KieCodes,
              msg : Messages \cup {Absent}, data : KieTaskData]

KieResponses == [http : HttpStatuses, body : KieBodies]

\* data.get("msg", "")
MsgOf(body) == IF body.msg = Absent THEN "" ELSE body.msg

\* _is_credit_error(error_msg) or _is_credit_error(str(data)): str(data)
\* holds every text of the body.
CreditIndicated(body) ==
    \/ is_credit_error(MsgOf(body))
    \/ /\ body.data.kind = "object"
       /\ body.data.taskId \notin {Absent, Null}
       /\ is_credit_error(body.data.taskId)

\* The part of generate_video and check_status of KieAIClient that precedes
\* the reading of "data": Passes when it lets the body through.
Passes == [raises |-> Null, status_code |-> 0]

kie_rejects(resp) ==
    IF resp.http # 200 THEN Raises("KieAIError", resp.http)
    ELSE IF resp.body.kind = "not_json" THEN Raises("JSONDecodeError", 0)
    ELSE IF resp.body.kind = "not_object" THEN Raises("AttributeError", 0)
    ELSE IF CreditIndicated(resp.body) THEN Raises("KieAIError", 402)
    ELSE IF resp.body.code # 200 THEN Raises("KieAIError", resp.body.code)
    ELSE IF resp.body.data.kind = Null THEN Raises("AttributeError", 0)
    ELSE Passes

\* KieAIClient.generate_video
kie_generate_video(resp) ==
    IF kie_rejects(resp) # Passes THEN kie_rejects(resp)
    ELSE IF resp.body.data.kind = Absent \/ resp.body.data.taskId \in {Absent, Null, ""}
         THEN Raises("KieAIError", 0)
    ELSE Returns("pending", resp.body.data.taskId)

\* KieAIClient.check_status: the mapping of successFlag
kie_status(flag) ==
    IF EqualsZero(flag) THEN "processing"
    ELSE IF EqualsOne(flag) THEN COMPLETED
    ELSE FAILED

\* KieAIClient.check_status
kie_check_status(resp) ==
    IF kie_rejects(resp) # Passes THEN kie_rejects(resp)
    ELSE IF resp.body.data.kind = Absent THEN Returns(kie_status(Absent), "task")
    ELSE Returns(kie_status(resp.body.data.successFlag), "task")

\* The lines of a TinyFish event stream: an empty line, a line that is not a
\* "data: " line, a data line that is not JSON, one whose JSON is not an
\* object, an event of another type, and the PROGRESS, COMPLETE and ERROR
\* events; a COMPLETE event carries resultJson r1 or r2 or none.
Lines ==
    {"empty", "comment", "not_json", "not_object", "HEARTBEAT", "PROGRESS",
     "COMPLETE r1", "COMPLETE r2", "COMPLETE null", "ERROR"}

Streams == UNION {[1..n -> Lines] : n \in 0..MaxEvents}

\* event_data.get("resultJson") of a COMPLETE event
resultJson(line) ==
    CASE line = "COMPLETE r1" -> "r1"
      [] line = "COMPLETE r2" -> "r2"
      [] OTHER -> Null

\* The end of extract_product_metadata: a missing result raises.
Finish(result_data) ==
    IF result_data = Null
    THEN [raises |-> "TinyFishError", message |-> "No result received from TinyFish"]
    ELSE [returns |-> result_data]

\* The stream loop that goes on reading after a COMPLETE event.
RECURSIVE read_to_end(_, _, _)
read_to_end(stream, i, result_data) ==
    IF i > Len(stream) THEN Finish(result_data)
    ELSE IF stream[i] \in {"COMPLETE r1", "COMPLETE r2", "COMPLETE null"}
         THEN read_to_end(stream, i + 1, resultJson(stream[i]))
    ELSE IF stream[i] = "ERROR"
         THEN [raises |-> "TinyFishError", message |-> "Extraction failed"]
    ELSE IF stream[i] = "not_object"
         THEN [raises |-> "AttributeError", message |-> ""]
    ELSE read_to_end(stream, i + 1, result_data)

\* TinyFishClient.extract_product_metadata: the loop over aiter_lines from
\* line i on, and what follows it.
RECURSIVE read_stream(_, _, _)
read_stream(stream, i, result_data) ==
    IF i > Len(stream) THEN Finish(result_data)
    ELSE IF stream[i] \in {"COMPLETE r1", "COMPLETE r2", "COMPLETE null"}
         THEN Finish(resultJson(stream[i]))
    ELSE IF stream[i] = "ERROR"
         THEN [raises |-> "TinyFishError", message |-> "Extraction failed"]
    ELSE IF stream[i] = "not_object"
         THEN [raises |-> "AttributeError", message |-> ""]
    ELSE read_stream(stream, i + 1, result_data)

ReplyInit ==
    /\ TaskIdle
    /\ jobs = NoJobs
    /\ wait = IdleWait
    /\ store = IdleStore
    /\ conc = IdleConc
    /\ meta = IdleMeta
    /\ client = IdleClient
    /\ http = IdleHttp
    /\ reply = IdleReply

reply_frame == <<jobs, wait, store, conc, meta, client, http, task_frame>>

\* One call of FreePikClient.check_status.
FreepikCheckStatus ==
    /\ reply = IdleReply
    /\ \E resp \in FreepikResponses :
        reply' = [op |-> "freepik.check_status", response |-> resp,
                  out |-> freepik_check_status(resp)]
    /\ UNCHANGED reply_frame

\* One call of KieAIClient.check_status.
KieCheckStatus ==
    /\ reply = IdleReply
    /\ \E resp \in KieResponses :
        reply' = [op |-> "kie.check_status", response |-> resp,
                  out |-> kie_check_status(resp)]
    /\ UNCHANGED reply_frame

\* One call of KieAIClient.generate_video.
KieGenerateVideo ==
    /\ reply = IdleReply
    /\ \E resp \in KieResponses :
        reply' = [op |-> "kie.generate_video", response |-> resp,
                  out |-> kie_generate_video(resp)]
    /\ UNCHANGED reply_frame

\* One call of TinyFishClient.extract_product_metadata on a response that
\* passed raise_for_status.
TinyfishExtract ==
    /\ reply = IdleReply
    /\ \E stream \in Streams :
        reply' = [op |-> "tinyfish.extract", response |-> stream,
                  out |-> read_stream(stream, 1, Null)]
    /\ UNCHANGED reply_frame

ReplyNext ==
    \/ FreepikCheckStatus
    \/ KieCheckStatus
    \/ KieGenerateVideo
    \/ TinyfishExtract

ReplySpec == ReplyInit /\ [][ReplyNext]_vars


\* ------------------------------------------------------------------ claims

Terminal == {COMPLETED, FAILED}

AllAgents(status) == AgentStatuses(status, status, status)

\* C1: every job started by run_generation_task eventually reaches stage
\* COMPLETED or FAILED, whatever the agent and the providers do (FairSpec:
\* every external call returns or raises).
C1_EventuallyTerminal == <>(Job.stage \in Terminal)

\* A job that ended after the agent used its whole budget of tool calls.
C1_Witness == pc = "done" /\ calls = MaxToolCalls /\ Job.stage \in Terminal

\* C2: when an exception ends the task, the job has been updated to FAILED with
\* progress 0, error = the exception text and the three sub-statuses FAILED;
\* the task never ends with the job in a non-terminal stage.
C2_RaisedMeansFailed ==
    /\ (pc \in {"failed_log", "done"} /\ exc # Null) =>
            /\ Job.stage = FAILED
            /\ Job.progress_percent = 0
            /\ Job.error = exc
            /\ Job.agents = AllAgents(AGENT_FAILED)
    /\ pc = "done" => Job.stage \in Terminal

\* generate_ad raised after a generate_video call had moved the job to 50 %.
C2_Witness ==
    /\ pc = "done"
    /\ exc = "Failed to generate any videos"
    /\ \E i \in 1..Len(trace) : trace[i].stage = GENERATING_VIDEO

\* C3: once the job's stage is COMPLETED or FAILED, no later step changes it.
C3_TerminalIsFinal ==
    [][Job.stage \in Terminal => jobs'[JobId].stage = Job.stage]_vars

\* The task has ended, one step after the COMPLETED update.
C3_Witness ==
    /\ pc = "done"
    /\ Job.stage = COMPLETED
    /\ Job.logs[Len(Job.logs)].message = "Ad generation completed successfully"

\* The order QUEUED < EXTRACTING_METADATA < GENERATING_PROMPT <
\* GENERATING_VIDEO < {COMPLETED, FAILED}
StageRank(stage) ==
    CASE stage = QUEUED -> 0
      [] stage = EXTRACTING_METADATA -> 1
      [] stage = GENERATING_PROMPT -> 2
      [] stage = GENERATING_VIDEO -> 3
      [] OTHER -> 4

\* C4: for every order in which the agent invokes its tools, the job's stage
\* never moves backward in the order of StageRank.
C4_StageNeverMovesBack ==
    [][StageRank(jobs'[JobId].stage) >= StageRank(Job.stage)]_vars

\* C5: a job that reaches COMPLETED has been in EXTRACTING_METADATA, then in
\* GENERATING_PROMPT with the product attached, then in GENERATING_VIDEO.
C5_CompletedWentThroughAllStages ==
    Job.stage = COMPLETED =>
        \E i, j, k \in 1..Len(trace) :
            /\ i < j /\ j < k
            /\ trace[i].stage = EXTRACTING_METADATA
            /\ trace[j].stage = GENERATING_PROMPT /\ trace[j].product # Null
            /\ trace[k].stage = GENERATING_VIDEO

\* C6: progress_percent stays within 0..100 and, from one update to the next,
\* never decreases except on the transition to FAILED.
C6_ProgressNeverDecreases ==
    [][/\ jobs'[JobId].progress_percent \in 0..100
       /\ \/ jobs'[JobId].progress_percent >= Job.progress_percent
          \/ jobs'[JobId].stage = FAILED]_vars

\* C7: a COMPLETED job has a video_path, progress 100, a product and the three
\* sub-statuses DONE.
C7_CompletedHasArtifacts ==
    Job.stage = COMPLETED =>
        /\ Job.video_path # Null
        /\ Job.progress_percent = 100
        /\ Job.product # Null
        /\ Job.agents = AllAgents(DONE)

\* The generate_video invocation whose pipelines `pipe` shows has returned.
VideoReturned == pc = "agent" /\ payload.tool = "generate_video"

Other(p) == IF p = FREEPIK THEN KIE_AI ELSE FREEPIK

\* The provider's result is among the results the agent keeps.
Recorded(p) ==
    \E i \in 1..Len(video_results) :
        video_results[i] = PipelineResult(p, pipe[p].video_url, pipe[p].local_path)

\* C8: with both providers enabled, a failure of one provider's pipeline, of
\* whatever kind, leaves the other pipeline to run to its own outcome, and the
\* other's successful result is recorded.
C8_FailureLeavesSibling ==
    (VideoReturned /\ use_veo3) =>
        \A p \in Providers :
            pipe[p].at \in {"failed", "raised"} =>
                /\ pipe[Other(p)].at \in Settled
                /\ pipe[Other(p)].at = "done" => Recorded(Other(p))

\* C9: with both providers enabled the pipelines are sibling tasks started at
\* the fan-out: once the first provider's submit has returned and its pipeline
\* is still in flight, the second provider's pipeline has been entered; and the
\* invocation returns only when no pipeline is still in flight.
C9_PipelinesRunConcurrently ==
    /\ (pc = "video" /\ use_veo3 /\ pipe[FREEPIK].at \in {"wait", "download"}) =>
            pipe[KIE_AI].at # "idle"
    /\ VideoReturned => \A p \in Providers : pipe[p].at \notin Running

\* The enabled providers, in configuration order.
EnabledProviders == IF use_veo3 THEN <<FREEPIK, KIE_AI>> ELSE <<FREEPIK>>

Succeeded(p) == pipe[p].at = "done"

Failed(p) == pipe[p].at \in {"failed", "raised"}

\* The message of provider p's failure is in the payload.
Reported(p) ==
    \E i \in 1..Len(payload.errors) : payload.errors[i].message = pipe[p].error

\* C10: generate_video returns an error payload exactly when no enabled
\* provider succeeded, and the payload then holds every provider's error; when
\* one succeeded it returns success, records exactly the successful providers'
\* results in configuration order and holds one warning per failed provider.
C10_PayloadMatchesOutcomes ==
    VideoReturned =>
        LET ok == SelectSeq(EnabledProviders, Succeeded)
            bad == SelectSeq(EnabledProviders, Failed)
        IN  /\ payload.isError <=> (ok = <<>>)
            /\ payload.isError => \A i \in 1..Len(bad) : Reported(bad[i])
            /\ ~payload.isError =>
                /\ video_results =
                    [i \in 1..Len(ok) |->
                        PipelineResult(ok[i], pipe[ok[i]].video_url,
                                       pipe[ok[i]].local_path)]
                /\ payload.errors =
                    [i \in 1..Len(bad) |-> ErrorEntry(bad[i], pipe[bad[i]].error)]

\* The text `part` occurs in the exception text `text`; the texts of the model
\* are whole messages.
Contains(text, part) == text = part

\* Every enabled provider of the latest generate_video invocation failed.
AllProvidersFailed ==
    \A i \in 1..Len(EnabledProviders) : pipe[EnabledProviders[i]].at = "failed"

\* C11: when every enabled provider fails, the job ends in stage FAILED and the
\* job's error field contains each provider's failure message.
C11_AllFailedIsReported ==
    (pc = "done" /\ AllProvidersFailed) =>
        /\ Job.stage = FAILED
        /\ \A i \in 1..Len(EnabledProviders) :
                Contains(Job.error, pipe[EnabledProviders[i]].error)

\* C12: generate_ad returns only with product metadata captured and at least
\* one result recorded; otherwise it raises, the metadata check first; no job
\* becomes COMPLETED without both.
C12_ReturnsOnlyWithBoth ==
    [][/\ pc = "compile" =>
            IF product_metadata = Null
            THEN pc' = "except" /\ exc' = "Failed to extract product metadata"
            ELSE IF video_results = <<>>
            THEN pc' = "except" /\ exc' = "Failed to generate any videos"
            ELSE pc' = "completed_log"
       /\ (Job.stage # COMPLETED /\ jobs'[JobId].stage = COMPLETED) =>
            product_metadata # Null /\ video_results # <<>>]_vars

\* generate_ad raised on the metadata check although a generate_video
\* invocation had been made and had recorded nothing.
C12_Witness ==
    /\ pc = "done"
    /\ exc = "Failed to extract product metadata"
    /\ video_results = <<>>
    /\ payload.tool = "generate_video"

\* COMPLETED carries a URL, FAILED carries an error message.
WellFormed(r) ==
    /\ r.status = VIDEO_COMPLETED => r.video_url # Null
    /\ r.status = VIDEO_FAILED => r.error_message # Null

\* C13: every VideoGenerationResult produced by check_status, by
\* wait_for_completion or by a provider pipeline with status COMPLETED has a
\* video_url, and every one with status FAILED has an error_message.
C13_ResultsWellFormed ==
    /\ \A p \in Providers : WellFormed(pipe[p].last)
    /\ \A i \in 1..Len(results) : WellFormed(results[i])

\* C14: each tool returns a structured payload, with isError set on failure,
\* and no exception leaves a tool, whatever the argument dictionary.
C14_ToolsNeverRaise ==
    /\ payload.kind # "raised"
    /\ payload.kind \in {"fallback", "all_failed", "unexpected"} => payload.isError

CallMessages == {"Calling get_product_metadata tool", "Starting video generation"}

ResultMessages == {"Extracted metadata for: product"}

\* The number of entries of logs whose message is in S.
Count(logs, S) == Cardinality({i \in 1..Len(logs) : logs[i].message \in S})

LastMessage(logs) == IF logs = <<>> THEN Null ELSE logs[Len(logs)].message

C16_TimeoutWithinOneInterval ==
    (wait.at = "raised_timeout" /\ wait.timeout_seconds > 0 /\ wait.poll_interval > 0) =>
        /\ \A i \in 1..Len(wait.seen) : wait.seen[i] \notin Terminated
        /\ wait.slept >= wait.timeout_seconds
        /\ wait.slept <= wait.timeout_seconds + wait.poll_interval

\* A timeout that is no multiple of the interval: 3 with interval 2, raised
\* after two polls and 4 units of sleep.
C16_Witness ==
    /\ wait.at = "raised_timeout"
    /\ wait.timeout_seconds = MaxTimeout
    /\ wait.poll_interval = MaxInterval
    /\ wait.slept > wait.timeout_seconds

\* No poll but the last reported a terminal status.
OnlyLastTerminated(seen) ==
    \A i \in 1..Len(seen) - 1 : seen[i] \notin Terminated

\* C17: wait_for_completion returns only a COMPLETED result, at the first poll
\* that reports COMPLETED; it raises the provider error at the first poll that
\* reports FAILED; no poll follows either; the timeout error is raised only if
\* no poll reported a terminal status.
C17_StopsAtFirstTerminal ==
    /\ OnlyLastTerminated(wait.seen)
    /\ wait.at = "returned" =>
            /\ wait.result.status = VIDEO_COMPLETED
            /\ wait.seen[Len(wait.seen)] = VIDEO_COMPLETED
    /\ wait.at = "raised_failed" => wait.seen[Len(wait.seen)] = VIDEO_FAILED
    /\ wait.at \in {"loop", "raised_timeout", "raised_error"} =>
            \A i \in 1..Len(wait.seen) : wait.seen[i] \notin Terminated

\* COMPLETED at the third poll, after a pending and a processing answer.
C17_Witness ==
    /\ wait.at = "returned"
    /\ wait.seen = <<VIDEO_PENDING, VIDEO_PROCESSING, VIDEO_COMPLETED>>

Min(a, b) == IF a < b THEN a ELSE b

\* C18: after n add_log calls on a job its log holds exactly the last
\* min(n, 50) entries in insertion order.
C18_LogHoldsLastEntries ==
    \A id \in DOMAIN jobs :
        LET n == store.added[id]
            kept == Min(n, LogCap)
        IN  jobs[id].logs =
                [i \in 1..kept |-> [source |-> "Agent", message |-> n - kept + i]]

\* 51 appends: the oldest entry is gone and the newest is present.
C18_Witness ==
    \E id \in DOMAIN jobs :
        /\ store.added[id] = LogCap + 1
        /\ Len(jobs[id].logs) = LogCap
        /\ jobs[id].logs[1].message = 2
        /\ jobs[id].logs[LogCap].message = LogCap + 1

\* C19: create(url) followed immediately by get of the returned id returns a
\* job with that product_url, stage QUEUED, progress 0, no error, an empty log
\* and all agent sub-statuses STANDBY.
C19_CreateThenGet ==
    store.op = "create" =>
        LET job == get(jobs, store.id)
        IN  /\ store.id \in DOMAIN jobs
            /\ job.product_url = store.url
            /\ job.stage = QUEUED
            /\ job.progress_percent = 0
            /\ job.error = Null
            /\ job.logs = <<>>
            /\ job.agents = AllAgents(STANDBY)

\* A create while the store holds another job that has been updated and logged.
C19_Witness ==
    /\ store.op = "create"
    /\ \E other \in DOMAIN jobs :
        /\ other # store.id
        /\ jobs[other].stage = GENERATING_VIDEO
        /\ jobs[other].logs # <<>>
        /\ jobs[other].product_url # store.url

\* C20: update and add_log with a job id that is not in the store create no
\* record and leave every existing record unchanged.
C20_UnknownIdIsNoOp ==
    [][(store' # store /\ store'.op \in {"update", "add_log"} /\ ~store'.known) =>
            jobs' = jobs]_vars

\* An add_log for an unknown id after an update for it, with another job in
\* the store.
C20_Witness ==
    /\ store.op = "add_log"
    /\ ~store.known
    /\ store.id \notin DOMAIN jobs
    /\ jobs # NoJobs

\* C21: a reader running concurrently with update or add_log never observes a
\* record in an intermediate state: neither a log of more than 50 entries nor
\* some but not all of the fields of one update call applied.
C21_ReaderSeesNoIntermediateState ==
    \A r \in conc.seen :
        /\ r.logs <= LogCap
        /\ (r.stage = GENERATING_VIDEO) <=> (r.progress_percent = 50)

\* No writer is inside an operation.
Quiescent == \A t \in Writers : conc.th[t].pc = "idle"

\* C22: create, update and add_log are mutually exclusive: whenever no writer
\* is inside an operation the store equals the result of applying the calls
\* one after the other in the order they took the lock, so no log entry and no
\* field update is lost.
C22_WritersSerialize ==
    /\ Cardinality({t \in Writers : conc.th[t].pc # "idle"}) <= 1
    /\ Quiescent => jobs = conc.serial

\* More than 50 entries added and an update applied, by the two writers.
C22_Witness ==
    /\ Quiescent
    /\ conc.begun = MaxWrites
    /\ \E id \in DOMAIN jobs :
        /\ Len(jobs[id].logs) = LogCap
        /\ jobs[id].logs[1].message > 1
        /\ jobs[id].stage = GENERATING_VIDEO

\* C23: create returns an id that is not already in the store and never
\* replaces an existing record; a created job remains retrievable with its
\* original product_url.
C23_CreateNeverReplaces ==
    [][/\ (store' # store /\ store'.op = "create") => store'.id \notin DOMAIN jobs
       /\ \A id \in DOMAIN jobs :
            /\ id \in DOMAIN jobs'
            /\ jobs'[id].product_url = jobs[id].product_url]_vars


\* Both strategies produced output and _merge_metadata has returned.
MergedBoth == meta.phase = "merged" /\ ~meta.tf.none

\* The non-empty values of a list.
NonEmptyValues(values) == {values[i] : i \in 1..Len(values)} \ {""}

\* The position at which v first occurs in a list.
FirstIndex(values, v) ==
    CHOOSE i \in 1..Len(values) :
        values[i] = v /\ \A j \in 1..(i - 1) : values[j] # v

\* merged is tf followed by html, without the empty values and with no value
\* twice, in the order in which the values are first seen.
UnionFirstSeen(merged, tf, html) ==
    /\ \A i, j \in 1..Len(merged) : merged[i] = merged[j] => i = j
    /\ {merged[i] : i \in 1..Len(merged)} = NonEmptyValues(tf \o html)
    /\ \A i, j \in 1..Len(merged) :
           i < j => FirstIndex(tf \o html, merged[i])
                        < FirstIndex(tf \o html, merged[j])

\* C24: when both strategies produce output, the merged images list and the
\* merged features list are the AI list followed by the HTML list with the
\* empty values dropped and each value kept at its first occurrence only.
C24_ListsAreUnionFirstSeen ==
    MergedBoth =>
        /\ UnionFirstSeen(meta.out.images, meta.tf.images, meta.html.images)
        /\ UnionFirstSeen(meta.out.features, meta.tf.features,
                          meta.html.features)

\* AI [a], HTML [a, b] gives [a, b].
C24_Witness ==
    /\ MergedBoth
    /\ meta.tf.images = <<"a">>
    /\ meta.html.images = <<"a", "b">>
    /\ meta.out.images = <<"a", "b">>

\* The AI value when it is non-empty, the HTML value otherwise.
AiElseHtml(tf_value, html_value) ==
    IF tf_value \notin {Null, ""} THEN tf_value ELSE html_value

\* The three optional scalars of the merged record follow AiElseHtml.
OptionalScalarsMerged ==
    /\ meta.out.description
           = AiElseHtml(meta.tf.description, meta.html.description)
    /\ meta.out.price = AiElseHtml(meta.tf.price, meta.html.price)
    /\ meta.out.brand = AiElseHtml(meta.tf.brand, meta.html.brand)

\* C25 as stated: when both strategies produce output, each of title,
\* description, price and brand of the merged record is the AI value when
\* that value is non-empty and the HTML value otherwise.
C25_ScalarsAiElseHtml ==
    MergedBoth =>
        /\ meta.out.title = AiElseHtml(meta.tf.title, meta.html.title)
        /\ OptionalScalarsMerged

\* C25, amended: as stated for description, price and brand and for a title
\* that either strategy has; when neither strategy has a non-empty title the
\* merged title is "Unknown Product".
C25_ScalarsAiElseHtmlElsePlaceholder ==
    MergedBoth =>
        /\ OptionalScalarsMerged
        /\ meta.out.title =
               IF AiElseHtml(meta.tf.title, meta.html.title) = ""
               THEN "Unknown Product"
               ELSE AiElseHtml(meta.tf.title, meta.html.title)

\* An empty AI title with an HTML title gives the HTML title.
C25_Witness ==
    /\ MergedBoth
    /\ meta.tf.title = ""
    /\ meta.html.title = "html"
    /\ meta.out.title = "html"
    /\ meta.tf.description = "ai"
    /\ meta.html.description = "html"
    /\ meta.out.description = "ai"


\* The HTML strategy has run on a page that was fetched and parsed.
HtmlDone == meta.phase \in {"merge_return", "returned"} /\ meta.page.fetched

\* The non-empty titles the structured product markup of a page carries.
MarkupTitles(page) ==
    {page.json_ld[i].name :
        i \in {j \in 1..Len(page.json_ld) : page.json_ld[j].type = "Product"}}
    \ {Null, ""}

\* The page's social-preview title is non-empty.
HasOgTitle(page) == page.og_title \notin {Null, ""}

\* The texts heuristic scanning reads.
HeuristicTitles(page) == {page.title_tag, page.h1} \ {Null, ""}

\* C26: for a page with a JSON-LD Product the title the HTML strategy returns
\* is that markup's title, whatever og:title, <title> and <h1> hold; the
\* og:title is returned when, and only when, the markup yields no non-empty
\* title and og:title is non-empty; a heuristic title only when neither
\* yields one.
C26_FirstStrategyWithTitle ==
    HtmlDone =>
        LET page == meta.page
            title == meta.html.title
        IN  /\ MarkupTitles(page) # {} => title \in MarkupTitles(page)
            /\ (MarkupTitles(page) = {} /\ HasOgTitle(page))
                   => title = page.og_title
            /\ title = page.og_title => MarkupTitles(page) = {}
            /\ title \in HeuristicTitles(page)
                   => MarkupTitles(page) = {} /\ ~HasOgTitle(page)

\* The HTML fetch or parse failed.
HtmlFailed == ~meta.page.fetched

\* The AI strategy raised.
AiFailed == meta.outcome \in {"TinyFishError", "Exception"}

\* The AI strategy was not tried or raised, or returned a dictionary whose
\* title is a string or null.
AiFailedOrUsable == meta.outcome # "malformed"

C28_CapturedTitleNonEmpty ==
    meta.phase = "returned" => meta.captured.title # ""


\* C29: a client constructed with no api_key argument while its environment
\* variable is unset raises the client's error in the constructor, before any
\* request; an api_key argument is used in preference to the environment
\* variable; the environment variable is used when no argument is given.
C29_KeyResolvedAtConstruction ==
    client.at \in {"raised", "ready"} =>
        /\ (client.arg = Null /\ client.env = Null) =>
               /\ client.at = "raised"
               /\ client.last.error = ErrorOf(client.kind)
               /\ client.requests = 0
        /\ client.at = "raised" => client.requests = 0 /\ client.ops = 0
        /\ ~Falsy(client.arg) =>
               client.at = "ready" /\ client.api_key = client.arg
        /\ (client.arg = Null /\ ~Falsy(client.env)) =>
               client.at = "ready" /\ client.api_key = client.env

\* FreePikClient() with FREEPIK_API_KEY unset has raised FreePikError.
C29_Witness ==
    /\ client.at = "raised"
    /\ client.kind = "FreePik"
    /\ client.arg = Null
    /\ client.env = Null
    /\ client.last.error = "FreePikError"

\* C30: a network operation on a client whose session is not open, before
\* the context is entered or after it is left, raises the client's "Client
\* not initialized" error and sends no request.
C30_NoSessionRaisesNotInitialized ==
    (client.at = "ready" /\ client.ops > 0 /\ client.last.session # "open") =>
        /\ client.last.error = ErrorOf(client.kind)
        /\ client.last.message = "Client not initialized"
        /\ ~client.last.sent


\* The job's task is over.
TaskOver == pc = "done"

\* C31: the HTTP session of a provider or resolver invocation is open only
\* while that invocation runs: once the pipeline has returned, raised its
\* provider's error (a timeout included) or raised anything else, and once
\* get_product_metadata has returned, the session is closed; when the job
\* has finished no session is open.
C31_SessionsClosedOnExit ==
    /\ \A p \in Providers :
           pipe[p].session = "open" => pipe[p].at \in Running
    /\ resolver_session = "open" => pc = "metadata"
    /\ TaskOver =>
           /\ resolver_session # "open"
           /\ \A p \in Providers : pipe[p].session # "open"

\* The job has finished after a pipeline that had opened a session timed out
\* and a metadata extraction had opened and closed its own.
C31_Witness ==
    /\ TaskOver
    /\ resolver_session = "closed"
    /\ pipe[FREEPIK].session = "closed"
    /\ pipe[FREEPIK].error = "Timeout waiting for video generation"


\* The latest request was a GET on the given path.
LastGet(path) ==
    /\ http.profile \in {"server", "index"}
    /\ http.last.method = "GET"
    /\ http.last.path = path

LastPost == http.profile \in Profiles /\ http.last.method = "POST"

\* C33: POST /api/generate with a body that is not valid JSON, or without a
\* url or with an invalid one, is answered 400 and creates no job; a valid
\* request creates exactly one job and returns its id with status "queued".
C33_InvalidIs400ValidCreatesOne ==
    LastPost =>
        IF http.last.id = "good_url"
        THEN /\ http.last.status = 200
             /\ http.last.body.status = "queued"
             /\ http.last.body.job_id \in DOMAIN jobs
             /\ Cardinality(DOMAIN jobs) = Cardinality(DOMAIN http.before) + 1
        ELSE /\ http.last.status = 400
             /\ jobs = http.before


\* The smallest whole number that is at least t / i.
Ceil(t, i) == (t + i - 1) \div i

\* The status checks wait_for_completion has made: those that gave a status
\* and the one that raised.
StatusChecks == Len(wait.seen) + (IF wait.at = "raised_error" THEN 1 ELSE 0)

CheckRaised(p) == pipe[p].error \in {"API error", "ReadTimeout"}

\* C35: an error raised by one status check leaves wait_for_completion at
\* once: the pipeline has failed although its timeout has not elapsed, and
\* it makes no further poll.
C35_CheckErrorEndsWait ==
    [][\A p \in Providers :
        /\ CheckRaised(p)' =>
               /\ pipe'[p].at \in {"failed", "raised"}
               /\ pipe'[p].elapsed < timeout_seconds(p)
        /\ (CheckRaised(p) /\ CheckRaised(p)') =>
               /\ pipe'[p].elapsed = pipe[p].elapsed
               /\ pipe'[p].last = pipe[p].last]_vars

\* Both kinds of error have ended a wait: FreePik's check raised the
\* provider's error and, after it, Kie.ai's check a transport error.
C35_Witness ==
    /\ pipe[FREEPIK].error = "API error"
    /\ pipe[FREEPIK].at = "failed"
    /\ pipe[KIE_AI].error = "ReadTimeout"
    /\ pipe[KIE_AI].at = "raised"


\* A generate_video invocation ends.
InvocationEnds == pc = "video" /\ pc' = "agent"

\* C36: the results the agent keeps are those of the last generate_video
\* invocation that reached aggregation: such an invocation replaces what was
\* recorded before, any other step leaves it alone; an invocation in which
\* every provider failed leaves nothing recorded and generate_ad then raises
\* "Failed to generate any videos", whatever an earlier invocation recorded.
C36_LastInvocationReplaces ==
    [][/\ (InvocationEnds /\ AllCaught) => video_results' = results
       /\ ~(InvocationEnds /\ AllCaught) => video_results' = video_results
       /\ (pc = "compile" /\ product_metadata # Null /\ video_results = <<>>)
              => exc' = "Failed to generate any videos"]_vars

\* An earlier invocation has recorded a result and in the present one every
\* provider has failed: its aggregation is about to record nothing.
C36_Witness ==
    /\ pc = "video"
    /\ AllCaught
    /\ results = <<>>
    /\ video_results # <<>>
    /\ product_metadata # Null


\* The status word of a FreePik response, Absent or Null when it has none.
StatusOf(resp) ==
    IF resp.data.kind = "object" THEN resp.data.status ELSE resp.data.kind

\* The successFlag of a Kie.ai body, Absent or Null when it has none.
FlagOf(body) ==
    IF body.data.kind = "object" THEN body.data.successFlag ELSE body.data.kind

\* A Kie.ai response that passes the error checks of the client.
Accepted(resp) ==
    /\ resp.http = 200
    /\ resp.body.kind = "object"
    /\ ~CreditIndicated(resp.body)
    /\ resp.body.code = 200

\* C37: check_status maps every response it accepts onto one status: for
\* FreePik created/pending/queued give PENDING, processing/in_progress give
\* PROCESSING, completed/done/success give COMPLETED, in any letter case, and
\* any other or missing status gives FAILED; for Kie.ai successFlag 0 gives
\* PROCESSING, 1 gives COMPLETED and any other or missing value gives FAILED.
C37_StatusMappedOntoFour ==
    /\ (reply.op = "freepik.check_status" /\ reply.response.http = 200) =>
           LET word == StatusOf(reply.response)
               status ==
                   IF word \in {Absent, Null} THEN FAILED
                   ELSE IF lower(word) \in {"created", "pending", "queued"}
                        THEN "pending"
                   ELSE IF lower(word) \in {"processing", "in_progress"}
                        THEN "processing"
                   ELSE IF lower(word) \in {"completed", "done", "success"}
                        THEN COMPLETED
                   ELSE FAILED
           IN  reply.out = Returns(status, "task")
    /\ (reply.op = "kie.check_status" /\ Accepted(reply.response)) =>
           LET flag == FlagOf(reply.response.body)
               status == IF flag = "0" THEN "processing"
                         ELSE IF flag = "1" THEN COMPLETED
                         ELSE FAILED
           IN  reply.out = Returns(status, "task")

\* C38: KieAIClient.generate_video returns a PENDING result with the task id
\* exactly when the HTTP status is a success, the body's code is 200, a
\* non-empty taskId is present and no credit indicator occurs in the body; a
\* credit indicator in the body of a successful response raises the
\* insufficient-credits error with status_code 402, and every other case
\* raises KieAIError.
C38_PendingOrKieError ==
    reply.op = "kie.generate_video" =>
        LET resp == reply.response
            texts == IF resp.body.kind # "object" THEN {}
                     ELSE {MsgOf(resp.body)} \cup
                          (IF resp.body.data.kind = "object"
                           THEN {resp.body.data.taskId} ELSE {})
            credit == \E t \in texts : is_credit_error(t)
            task_id == IF resp.body.kind = "object" /\ resp.body.data.kind = "object"
                       THEN resp.body.data.taskId ELSE Absent
            good == /\ resp.http = 200
                    /\ resp.body.kind = "object"
                    /\ resp.body.code = 200
                    /\ task_id \notin {Absent, Null, ""}
                    /\ ~credit
        IN  /\ good => reply.out = Returns("pending", task_id)
            /\ ~good => "raises" \in DOMAIN reply.out /\ reply.out.raises = "KieAIError"
            /\ (resp.http = 200 /\ credit) => reply.out = Raises("KieAIError", 402)

\* The COMPLETE and ERROR events of a stream.
EndEvents == {"COMPLETE r1", "COMPLETE r2", "COMPLETE null", "ERROR"}

\* The positions of the COMPLETE and ERROR events of a stream.
TerminalAt(stream) == {i \in 1..Len(stream) : stream[i] \in EndEvents}

\* The lines read: those up to the first COMPLETE or ERROR event.
LinesRead(stream) ==
    {i \in 1..Len(stream) : \A j \in TerminalAt(stream) : i <= j}

C40_OtherJobsUntouched ==
    [][store'.op \in {"update", "add_log"} =>
           /\ DOMAIN jobs' = DOMAIN jobs
           /\ \A id \in DOMAIN jobs : id # store'.id => jobs'[id] = jobs[id]]_vars

\* Two records exist, the latest call added an entry to the log of one of
\* them, and the log of the other is still empty.
C40_Witness ==
    /\ store.op = "add_log"
    /\ DOMAIN jobs = JobIds
    /\ jobs[store.id].logs # <<>>
    /\ \E id \in JobIds : id # store.id /\ jobs[id].logs = <<>>

====
